---- MODULE Spec2Model ----
(***************************************************************************)
(* A model of the metadata and write-path coordinator (Server) of the      *)
(* influxdb data node: the broker client port, the apply engine            *)
(* (Server.processor and the applyX handlers), the command surface         *)
(* (broadcast / Sync) and shard-group placement.                           *)
(*                                                                         *)
(* Conventions.  Go maps are functions with a finite domain; a nil error   *)
(* is the string "nil"; the empty string of a name is "".  A data node URL *)
(* is an integer k standing for "http://host-k"; the empty URL is 0; the   *)
(* integer 10 + k is another spelling of URL k ("HTTP://host-k").          *)
(* Times are integers (nanoseconds since the zero time) and durations are  *)
(* integers.  A runtime panic of the processor goroutine ends the process: *)
(* it sets the flag panicked and nothing is enabled afterwards.            *)
(***************************************************************************)
EXTENDS Integers, Sequences, FiniteSets, TLC

VARIABLES
    server,  \* the Server value of the local node
    peer,    \* a second Server fed the same broadcast stream
    queue,   \* broker: published messages not yet delivered, in log order
    brokerIndex, \* broker: index of the last published message
    caller   \* the local caller of the command surface

vars == <<server, peer, queue, brokerIndex, caller>>

----------------------------------------------------------------------------
(* Bounds of the model.                                                    *)

MaxIndex == 6
MaxNodes == 2
MaxReplicaN == 2
MaxTime == 2

URLs == 1..MaxNodes
DBNames == {"db"}
PolicyNames == {"a", "b"}
Durations == {2}
ReplicaNs == 0..MaxReplicaN
Timestamps == 0..MaxTime
PeerIDs == {2}

BroadcastTopicID == 0

Nil == "nil"

----------------------------------------------------------------------------
(* Go maps.                                                                *)

EmptyMap == [x \in {} |-> Nil]

Put(f, k, v) == [x \in (DOMAIN f) \cup {k} |-> IF x = k THEN v ELSE f[x]]

Del(f, k) == [x \in (DOMAIN f) \ {k} |-> f[x]]

Has(f, k) == k \in DOMAIN f

----------------------------------------------------------------------------
(* Server state.                                                           *)

NewServer ==
    [ id        |-> 0,
      path      |-> "",
      index     |-> 0,
      errors    |-> EmptyMap,
      dataNodes |-> EmptyMap,
      databases |-> EmptyMap,
      shards    |-> EmptyMap,
      meta      |-> [ id |-> 0, dataNodeID |-> 0, shardGroupID |-> 0,
                      shardID |-> 0, seriesID |-> 0, dataNodes |-> EmptyMap,
                      databases |-> EmptyMap, series |-> {},
                      failing |-> FALSE ],   \* the store refuses updates
      subs      |-> {},
      stores    |-> EmptyMap,
      client    |-> 0,      \* the messaging client (0: nil)
      done      |-> 0,      \* the done channel of the processor (0: nil)
      doneSeq   |-> 0,      \* the done channels made so far
      closedDone |-> {},    \* the done channels that have been closed
      procs     |-> {},     \* the processor goroutines that have not returned
      held      |-> EmptyMap, \* by processor: the message it has received
      mu        |-> [ w |-> 0, r |-> EmptyMap,   \* the lock: writer, readers,
                      pending |-> FALSE ],     \* and a Lock that waits
      procAt    |-> "select", \* the statement the processor is at
      procErr   |-> Nil,      \* the error its handler returned
      panicked  |-> FALSE ]

newDatabase(name) ==
    [ name |-> name, policies |-> EmptyMap, defaultRetentionPolicy |-> "",
      measurements |-> EmptyMap ]

opened(s) == s.path # ""

\* Server.setClient (lines 236-259): refused on a closed server; else the
\* done channel of the previous processor is closed, the client is set and,
\* for a client that is not nil, a processor goroutine is started on a new
\* done channel.
setClient(s, client) ==
    IF ~opened(s) THEN [s |-> s, err |-> "ErrServerClosed"]
    ELSE LET s1 == IF s.done # 0
                   THEN [s EXCEPT !.closedDone = @ \cup {s.done}, !.done = 0]
                   ELSE s
             s2 == [s1 EXCEPT !.client = client]
         IN [ s   |-> IF client # 0
                      THEN [s2 EXCEPT !.doneSeq = @ + 1,
                                      !.done = s2.doneSeq + 1,
                                      !.procs = @ \cup {[ client |-> client,
                                                          done |-> s2.doneSeq + 1 ]}]
                      ELSE s2,
              err |-> Nil ]

\* Server.Close (lines 169-188): refused on a closed server; else the path
\* is removed, setClient(nil) is called and its error dropped, the metastore
\* is closed.
Close(s) ==
    IF ~opened(s) THEN [s |-> s, err |-> "ErrServerClosed"]
    ELSE [ s   |-> setClient([s EXCEPT !.path = ""], 0).s,
           err |-> Nil ]

\* metatx.saveDatabase: the metastore keeps the database as it is now, with
\* its policies, shard groups and shards.
saveDatabase(s, name) ==
    [s EXCEPT !.meta.databases = Put(s.meta.databases, name, s.databases[name])]

\* The metastore refuses an update: the store is failing, or it was closed by
\* Server.Close (line 185), which is the case exactly when the path is empty.
metaFails(s) == s.meta.failing \/ ~opened(s)

\* metastore.mustUpdate: the transaction of fn commits and nil is returned,
\* or it aborts, the metastore stays as it was and the error is returned.
\* meta is the metastore the transaction would leave.
mustUpdate(s, meta) ==
    IF metaFails(s) THEN [meta |-> s.meta, err |-> "ErrMetastore"]
    ELSE [meta |-> meta, err |-> Nil]

\* The result of an apply handler: the server after it and the error returned.
Ret(s, e) == [s |-> s, err |-> e]

\* A runtime panic inside a handler.
Panic(s) == [s |-> [s EXCEPT !.panicked = TRUE], err |-> "panic"]

----------------------------------------------------------------------------
(* Data node handlers.                                                     *)

\* url.Parse, then URL.String: the spelling the data nodes are compared in.
urlParse(raw) == raw % 10

\* A variant of DataNodeByURL that finds no node.
DataNodeByNoURL(s, u) == 0

\* The id of the data node with URL u, or 0 when there is none (a nil node).
DataNodeByURL(s, u) ==
    IF \E id \in DOMAIN s.dataNodes : s.dataNodes[id].URL = u
    THEN CHOOSE id \in DOMAIN s.dataNodes : s.dataNodes[id].URL = u
    ELSE 0

applyCreateDataNode(s, m) ==
    LET c == m.data IN
    IF c.url = 0 THEN Ret(s, "ErrDataNodeURLRequired")
    ELSE IF DataNodeByURL(s, urlParse(c.url)) # 0 THEN Ret(s, "ErrDataNodeExists")
    ELSE LET id == s.meta.dataNodeID + 1
             n  == [ID |-> id, URL |-> urlParse(c.url)]
             tx == mustUpdate(s, [s.meta EXCEPT !.dataNodeID = id,
                                                !.dataNodes = Put(@, id, n)])
         \* Line 470 adds the node whatever the transaction returned.
         IN Ret([s EXCEPT !.meta = tx.meta,
                          !.dataNodes = Put(s.dataNodes, id, n)], tx.err)

applyDeleteDataNode(s, m) ==
    LET c == m.data IN
    IF ~Has(s.dataNodes, c.id) THEN Ret(s, "ErrDataNodeNotFound")
    ELSE LET tx == mustUpdate(s, [s.meta EXCEPT !.dataNodes = Del(@, c.id)])
         \* Line 501 deletes the node whatever the transaction returned.
         IN Ret([s EXCEPT !.meta = tx.meta,
                          !.dataNodes = Del(s.dataNodes, c.id)], tx.err)

----------------------------------------------------------------------------
(* Database handlers.                                                      *)

applyCreateDatabase(s, m) ==
    LET c == m.data IN
    IF Has(s.databases, c.name) THEN Ret(s, "ErrDatabaseExists")
    ELSE LET s1 == [s EXCEPT !.databases =
                        Put(s.databases, c.name, newDatabase(c.name))]
             tx == mustUpdate(s, saveDatabase(s1, c.name).meta)
         \* Line 553 adds the database whatever the transaction returned.
         IN Ret([s1 EXCEPT !.meta = tx.meta], tx.err)

applyDeleteDatabase(s, m) ==
    LET c == m.data IN
    IF ~Has(s.databases, c.name) THEN Ret(s, "ErrDatabaseNotFound")
    ELSE LET tx == mustUpdate(s, [s.meta EXCEPT !.databases = Del(@, c.name)])
         \* Line 583 deletes the database whatever the transaction returned.
         IN Ret([s EXCEPT !.meta = tx.meta,
                          !.databases = Del(s.databases, c.name)], tx.err)

----------------------------------------------------------------------------
(* Retention policy handlers.  Each changes the database in memory and     *)
(* then saves it.                                                          *)

applyCreateRetentionPolicy(s, m) ==
    LET c == m.data IN
    IF ~Has(s.databases, c.database) THEN Ret(s, "ErrDatabaseNotFound")
    ELSE IF c.name = "" THEN Ret(s, "ErrRetentionPolicyNameRequired")
    ELSE IF Has(s.databases[c.database].policies, c.name)
         THEN Ret(s, "ErrRetentionPolicyExists")
    ELSE LET rp == [ Name |-> c.name, Duration |-> c.duration,
                     ReplicaN |-> c.replicaN, shardGroups |-> <<>> ]
             s1 == [s EXCEPT !.databases[c.database].policies =
                        Put(s.databases[c.database].policies, c.name, rp)]
             tx == mustUpdate(s, saveDatabase(s1, c.database).meta)
         \* Lines 1037-1041: the error of the transaction is dropped.
         IN Ret([s1 EXCEPT !.meta = tx.meta], Nil)

\* Lines 1086-1091: the rename of policy p of database db.
renamePolicy(policies, name, newName) ==
    IF newName # name /\ newName # ""
    THEN LET p == policies[name]
         IN Put(Del(policies, p.Name), newName, [p EXCEPT !.Name = newName])
    ELSE policies

applyUpdateRetentionPolicy(s, m) ==
    LET c == m.data IN
    IF ~Has(s.databases, c.database) THEN Ret(s, "ErrDatabaseNotFound")
    ELSE IF c.name = "" THEN Ret(s, "ErrRetentionPolicyNameRequired")
    ELSE IF ~Has(s.databases[c.database].policies, c.name)
         THEN Ret(s, "ErrRetentionPolicyNotFound")
    ELSE LET s1 == [s EXCEPT !.databases[c.database].policies =
                        renamePolicy(s.databases[c.database].policies,
                                     c.name, c.newName)]
             tx == mustUpdate(s, saveDatabase(s1, c.database).meta)
         IN Ret([s1 EXCEPT !.meta = tx.meta], tx.err)

applyDeleteRetentionPolicy(s, m) ==
    LET c == m.data IN
    IF ~Has(s.databases, c.database) THEN Ret(s, "ErrDatabaseNotFound")
    ELSE IF c.name = "" THEN Ret(s, "ErrRetentionPolicyNameRequired")
    ELSE IF ~Has(s.databases[c.database].policies, c.name)
         THEN Ret(s, "ErrRetentionPolicyNotFound")
    ELSE LET s1 == [s EXCEPT !.databases[c.database].policies =
                        Del(s.databases[c.database].policies, c.name)]
             tx == mustUpdate(s, saveDatabase(s1, c.database).meta)
         IN Ret([s1 EXCEPT !.meta = tx.meta], tx.err)

applySetDefaultRetentionPolicy(s, m) ==
    LET c == m.data IN
    IF ~Has(s.databases, c.database) THEN Ret(s, "ErrDatabaseNotFound")
    ELSE IF ~Has(s.databases[c.database].policies, c.name)
         THEN Ret(s, "ErrRetentionPolicyNotFound")
    ELSE LET s1 == [s EXCEPT !.databases[c.database].defaultRetentionPolicy =
                        c.name]
             tx == mustUpdate(s, saveDatabase(s1, c.database).meta)
         IN Ret([s1 EXCEPT !.meta = tx.meta], tx.err)

----------------------------------------------------------------------------
(* Shard groups.                                                           *)

\* time.Time.Truncate: t rounded down to a multiple of d; t itself if d <= 0.
Truncate(t, d) == IF d <= 0 THEN t ELSE t - (t % d)

\* A variant of StartTime that leaves the timestamp untruncated.
StartTimeUntruncated(timestamp, duration) == timestamp

\* The window of a new shard group (lines 682-683).
StartTime(timestamp, duration) == Truncate(timestamp, duration)

EndTime(timestamp, duration) == StartTime(timestamp, duration) + duration

\* Whether the window [StartTime, EndTime) of group g holds the timestamp.
Contains(g, timestamp) == g.StartTime <= timestamp /\ timestamp < g.EndTime

\* The position in rp.shardGroups of the first group that contains the
\* timestamp, or 0 when there is none (a nil group).
shardGroupByTimestamp(rp, timestamp) ==
    IF \E i \in 1..Len(rp.shardGroups) : Contains(rp.shardGroups[i], timestamp)
    THEN CHOOSE i \in 1..Len(rp.shardGroups) :
            /\ Contains(rp.shardGroups[i], timestamp)
            /\ \A j \in 1..(i - 1) : ~Contains(rp.shardGroups[j], timestamp)
    ELSE 0

\* A variant of groupExists that never finds the group.
groupNeverExists(rp, timestamp) == FALSE

\* Lines 675-678: the request is ignored when a group holds the timestamp.
groupExists(rp, timestamp) == shardGroupByTimestamp(rp, timestamp) # 0

HasDataNodeID(sh, id) == \E i \in 1..Len(sh.DataNodeIDs) : sh.DataNodeIDs[i] = id

\* sort.Sort(dataNodes(nodes)): the ids of the data nodes in ascending order.
SortAsc(S) ==
    [i \in 1..Cardinality(S) |->
        CHOOSE x \in S : Cardinality({y \in S : y < x}) = i - 1]

sortedNodes(s) == SortAsc(DOMAIN s.dataNodes)

\* A variant of effectiveReplicaN without the clamp to the node count.
unclampedReplicaN(policyReplicaN, nodeN) ==
    IF policyReplicaN = 0 THEN 1 ELSE policyReplicaN

\* Lines 692-698: at least one replica but no more replicas than nodes.
effectiveReplicaN(policyReplicaN, nodeN) ==
    IF policyReplicaN = 0 THEN 1
    ELSE IF policyReplicaN > nodeN THEN nodeN
    ELSE policyReplicaN

\* A variant of startNodeIndex that always starts from the first node.
startNodeIndexZero(s, m, nodeN) == 0

\* A variant of startNodeIndex seeded with the local server id as well.
startNodeIndexLocal(s, m, nodeN) == (m.index + s.id) % nodeN

\* Line 723: the place in the node list the round robin starts from.
startNodeIndex(s, m, nodeN) == m.index % nodeN

\* A variant of assignDataNodeIDs in which every shard starts from the
\* first place of the round robin.
assignSameNodes(nodes, nodeIndex, replicaN, k) ==
    [i \in 1..replicaN |-> nodes[((nodeIndex + (i - 1)) % Len(nodes)) + 1]]

\* Lines 724-730: the data nodes of the k-th shard (k from 0) of a group.
assignDataNodeIDs(nodes, nodeIndex, replicaN, k) ==
    [i \in 1..replicaN |->
        nodes[((nodeIndex + k * replicaN + (i - 1)) % Len(nodes)) + 1]]

\* A variant of shardsForLookup that keeps the shards of this server only.
localShardsForLookup(s, shards) ==
    {shards[i] : i \in {j \in 1..Len(shards) : HasDataNodeID(shards[j], s.id)}}

\* Lines 751-754: the shards of the new group that enter the shard map.
shardsForLookup(s, shards) == {shards[i] : i \in 1..Len(shards)}

RECURSIVE PutAll(_, _)
PutAll(f, S) ==
    IF S = {} THEN f
    ELSE LET sh == CHOOSE x \in S : TRUE
         IN PutAll(Put(f, sh.ID, sh), S \ {sh})

applyCreateShardGroupIfNotExists(s, m) ==
    LET c == m.data IN
    IF ~Has(s.databases, c.database) THEN Ret(s, "ErrDatabaseNotFound")
    ELSE IF ~Has(s.databases[c.database].policies, c.policy)
         THEN Ret(s, "ErrRetentionPolicyNotFound")
    ELSE
    LET rp == s.databases[c.database].policies[c.policy] IN
    IF groupExists(rp, c.timestamp) THEN Ret(s, Nil)
    ELSE
    LET nodes    == sortedNodes(s)
        replicaN == effectiveReplicaN(rp.ReplicaN, Len(nodes))
    IN
    \* len(nodes) / replicaN with replicaN = 0, or m.Index % len(nodes) with
    \* no node: an integer division by zero, which panics.
    IF replicaN = 0 \/ Len(nodes) = 0 THEN Panic(s)
    ELSE
    LET shardN    == Len(nodes) \div replicaN
        nodeIndex == startNodeIndex(s, m, Len(nodes))
        shards    == [k \in 1..shardN |->
                        LET ids == assignDataNodeIDs(nodes, nodeIndex, replicaN, k - 1)
                        IN [ ID          |-> s.meta.shardID + k,
                             DataNodeIDs |-> ids,
                             open        |-> HasDataNodeID([DataNodeIDs |-> ids], s.id) ]]
        g         == [ ID        |-> s.meta.shardGroupID + 1,
                       StartTime |-> StartTime(c.timestamp, rp.Duration),
                       EndTime   |-> EndTime(c.timestamp, rp.Duration),
                       Shards    |-> shards ]
        local     == {shards[k].ID : k \in {j \in 1..shardN : shards[j].open}}
        \* Line 732: the transaction saves db before line 755 appends the group.
        tx        == mustUpdate(s, [saveDatabase(s, c.database).meta EXCEPT
                                        !.shardGroupID = g.ID,
                                        !.shardID = s.meta.shardID + shardN])
    IN IF tx.err # Nil THEN Ret(s, tx.err)
       ELSE
       Ret([s EXCEPT !.meta = tx.meta,
                     !.shards = PutAll(s.shards, shardsForLookup(s, shards)),
                     !.databases[c.database].policies[c.policy].shardGroups =
                         Append(rp.shardGroups, g),
                     !.subs = s.subs \cup local],
           Nil)

----------------------------------------------------------------------------
(* Series, measurements and fields.  A tag set is a string in canonical    *)
(* form; a field name is an integer k standing for "field-k"; a value is a *)
(* number.                                                                 *)

MaxFieldID == 255

\* A variant of seriesIDOf that finds no series.
seriesNeverFound(db, name, tags) == 0

\* Database.MeasurementAndSeries: the id of the series of measurement name
\* with the tags, or 0 when there is none (a nil series).
seriesIDOf(db, name, tags) ==
    IF Has(db.measurements, name) /\ Has(db.measurements[name].series, tags)
    THEN db.measurements[name].series[tags]
    ELSE 0

\* Database.addSeriesToIndex: the measurement is created on its first series.
addSeriesToIndex(db, name, tags, id) ==
    LET mm == IF Has(db.measurements, name) THEN db.measurements[name]
              ELSE [ Name |-> name, Fields |-> <<>>, series |-> EmptyMap ]
    IN [db EXCEPT !.measurements =
            Put(db.measurements, name, [mm EXCEPT !.series = Put(mm.series, tags, id)])]

applyCreateSeriesIfNotExists(s, m) ==
    LET c == m.data IN
    IF ~Has(s.databases, c.database) THEN Ret(s, "ErrDatabaseNotFound")
    ELSE IF seriesIDOf(s.databases[c.database], c.name, c.tags) # 0 THEN Ret(s, Nil)
    ELSE LET id == s.meta.seriesID + 1
             tx == mustUpdate(s, [s.meta EXCEPT
                        !.seriesID = id,
                        !.series = @ \cup {[ database |-> c.database,
                                             name |-> c.name,
                                             tags |-> c.tags, ID |-> id ]}])
         IN IF tx.err # Nil THEN Ret(s, tx.err)
            ELSE Ret([s EXCEPT !.meta = tx.meta,
                               !.databases[c.database] =
                                   addSeriesToIndex(@, c.name, c.tags, id)],
                     Nil)

\* metatx.indexDatabase: the series the metastore holds for the database
\* enter its index.
RECURSIVE indexDatabase(_, _)
indexDatabase(db, series) ==
    IF series = {} THEN db
    ELSE LET x == CHOOSE y \in series : TRUE
         IN indexDatabase(addSeriesToIndex(db, x.name, x.tags, x.ID), series \ {x})

\* Server.load (lines 191-220): the server id and the databases are read
\* from the metastore, each database with its index (and the users, which
\* are not modelled); nothing else is read.
load(s) ==
    [s EXCEPT !.id = s.meta.id,
              !.databases =
                  [n \in DOMAIN s.meta.databases |->
                      indexDatabase(s.meta.databases[n],
                                    {x \in s.meta.series : x.database = n})]]

\* Server.Open (lines 133-164): refused on an open server and without a
\* path; else the state is loaded from the metastore of the directory and
\* the path is set.
Open(s, path) ==
    IF opened(s) \/ path = "" THEN s
    ELSE [load(s) EXCEPT !.path = path]

\* A server opened on an empty directory, with messaging client 1 set.
StartedServer == setClient(Open(NewServer, "data"), 1).s

\* Measurement.FieldByName: the id of the field called name, or 0 (nil).
FieldByName(fields, name) ==
    IF \E i \in 1..Len(fields) : fields[i].Name = name
    THEN fields[CHOOSE i \in 1..Len(fields) : fields[i].Name = name].ID
    ELSE 0

\* Measurement.Field: the name of the field with the id, or 0 (nil).
FieldName(fields, id) ==
    IF \E i \in 1..Len(fields) : fields[i].ID = id
    THEN fields[CHOOSE i \in 1..Len(fields) : fields[i].ID = id].Name
    ELSE 0

\* A variant of createFieldIfNotExists that has no room for a new field.
createNoField(fields, name) == fields

\* Measurement.createFieldIfNotExists: an existing field is kept; a new one
\* gets the next id; past MaxFieldID fields the name gets no field
\* (ErrFieldOverflow, which applyWriteSeries logs and skips).
createFieldIfNotExists(fields, name) ==
    IF FieldByName(fields, name) # 0 THEN fields
    ELSE IF Len(fields) + 1 > MaxFieldID THEN fields
    ELSE Append(fields, [ID |-> Len(fields) + 1, Name |-> name])

\* The loop of applyWriteSeries over c.Values, in the order ord of the keys.
RECURSIVE createFields(_, _)
createFields(fields, ord) ==
    IF ord = <<>> THEN fields
    ELSE LET next == createFieldIfNotExists(fields, Head(ord))
         IN IF FieldByName(next, Head(ord)) = 0
            THEN createFields(next, Tail(ord))   \* ErrFieldOverflow: logged, skipped
            ELSE createFields(next, Tail(ord))

\* A variant of mapValues that never finds all the fields.
mapValuesNever(fields, values) == <<>>

\* Measurement.mapValues: <<raw>>, the values under their field ids, or <<>>
\* (a nil map) when a key has no field.
mapValues(fields, values) ==
    IF \E k \in DOMAIN values : FieldByName(fields, k) = 0 THEN <<>>
    ELSE << [id \in {FieldByName(fields, k) : k \in DOMAIN values} |->
                values[FieldName(fields, id)]] >>

\* marshalValues: the stream of (field id, value) records of a raw value map.
marshalValues(rawValues) ==
    LET ids == SortAsc(DOMAIN rawValues)
    IN [i \in 1..Len(ids) |-> [fieldID |-> ids[i], value |-> rawValues[ids[i]]]]

\* unmarshalValues: the raw value map of a stream of records.
unmarshalValues(data) ==
    [id \in {data[i].fieldID : i \in 1..Len(data)} |->
        data[CHOOSE i \in 1..Len(data) : data[i].fieldID = id].value]

----------------------------------------------------------------------------
(* Point writes on a shard topic.                                          *)

\* Shard.writeSeries with overwrite: the point store of shard id keeps data
\* under the key (seriesID, timestamp).
writeSeries(s, id, seriesID, timestamp, data) ==
    LET store == IF Has(s.stores, id) THEN s.stores[id] ELSE EmptyMap
    IN [s EXCEPT !.stores = Put(s.stores, id, Put(store, <<seriesID, timestamp>>, data))]

applyWriteRawSeries(s, m) ==
    IF ~Has(s.shards, m.topic) THEN Ret(s, "ErrShardNotFound")
    ELSE IF ~s.shards[m.topic].open THEN Panic(s)
    ELSE Ret(writeSeries(s, m.topic, m.data.seriesID, m.data.timestamp, m.data.values),
             Nil)

\* The orders in which a range over the keys of map f may visit them.
RECURSIVE Orders(_)
Orders(S) ==
    IF S = {} THEN {<<>>}
    ELSE UNION { { <<x>> \o o : o \in Orders(S \ {x}) } : x \in S }

\* applyWriteSeries, the loop over c.Values visiting the keys in order ord.
applyWriteSeries(s, m, ord) ==
    LET c == m.data IN
    IF ~Has(s.shards, m.topic) THEN Ret(s, "ErrShardNotFound")
    ELSE IF ~Has(s.databases, c.database) THEN Ret(s, "ErrDatabaseNotFound")
    ELSE IF ~Has(s.databases[c.database].measurements, c.measurement)
         THEN Ret(s, "ErrMeasurementNotFound")
    ELSE
    LET mm        == s.databases[c.database].measurements[c.measurement]
        fields    == createFields(mm.Fields, ord)
        rawValues == [id \in {FieldByName(fields, k) : k \in DOMAIN c.values} \ {0}
                        |-> c.values[FieldName(fields, id)]]
        s0        == [s EXCEPT !.databases[c.database].measurements[c.measurement]
                                        .Fields = fields]
        tx        == mustUpdate(s, saveDatabase(s0, c.database).meta)
        s1        == [s0 EXCEPT !.meta = tx.meta]
    IN IF tx.err # Nil THEN Ret(s1, tx.err)
       ELSE IF ~s.shards[m.topic].open THEN Panic(s1)
       ELSE Ret(writeSeries(s1, m.topic, c.seriesID, c.timestamp,
                            marshalValues(rawValues)),
                Nil)

\* The orders the handler of m may visit the keys of its value map in.
rangeOrders(m) ==
    IF m.type = "writeSeries" THEN Orders(DOMAIN m.data.values) ELSE {<<>>}

----------------------------------------------------------------------------
(* The apply engine.                                                       *)

\* The switch of Server.processor: the handler of the message's type.
apply(s, m, ord) ==
    CASE m.type = "writeSeries"                 -> applyWriteSeries(s, m, ord)
      [] m.type = "writeRawSeries"              -> applyWriteRawSeries(s, m)
      [] m.type = "createDataNode"              -> applyCreateDataNode(s, m)
      [] m.type = "deleteDataNode"              -> applyDeleteDataNode(s, m)
      [] m.type = "createDatabase"              -> applyCreateDatabase(s, m)
      [] m.type = "deleteDatabase"              -> applyDeleteDatabase(s, m)
      [] m.type = "createRetentionPolicy"       -> applyCreateRetentionPolicy(s, m)
      [] m.type = "updateRetentionPolicy"       -> applyUpdateRetentionPolicy(s, m)
      [] m.type = "deleteRetentionPolicy"       -> applyDeleteRetentionPolicy(s, m)
      [] m.type = "setDefaultRetentionPolicy"   -> applySetDefaultRetentionPolicy(s, m)
      [] m.type = "createShardGroupIfNotExists" -> applyCreateShardGroupIfNotExists(s, m)
      [] m.type = "createSeriesIfNotExists"     -> applyCreateSeriesIfNotExists(s, m)
      [] OTHER                                  -> Ret(s, Nil)

\* Lines 1873-1879: the high water mark after the handler of m has returned.
syncIndex(s, m) == m.index

\* Lines 1838-1879: the handler of m, then the high water mark and the error
\* of the message.  A panic of the handler ends the goroutine before the high
\* water mark is written.
applyAndSync(s, m, ord) ==
    LET r == apply(s, m, ord) IN
    IF r.s.panicked THEN r.s
    ELSE [r.s EXCEPT !.index  = syncIndex(s, m),
                     !.errors = IF r.err # Nil THEN Put(@, m.index, r.err) ELSE @]

\* One turn of the loop of Server.processor on message m, with nothing else
\* running between the check of line 1834 and the handler.  A message
\* received while the server is closed is dropped.
processor(s, m, ord) ==
    IF ~opened(s) THEN s ELSE applyAndSync(s, m, ord)

\* Server.Sync once s.index >= index: the error recorded under index, which
\* is deleted from the map, or nil.
Sync(s, index) ==
    [ s   |-> [s EXCEPT !.errors = Del(@, index)],
      err |-> IF Has(s.errors, index) THEN s.errors[index] ELSE Nil ]

\* Server.Initialize after CreateDataNode has returned nil: the node of the
\* URL must have id 1 (a nil node or another id panics); the server id is 1.
initializeID(s, u) ==
    IF DataNodeByURL(s, u) # 1 THEN [s EXCEPT !.panicked = TRUE]
    ELSE [s EXCEPT !.meta.id = 1, !.id = 1]

----------------------------------------------------------------------------
(* Initial state: a new server opened on an empty directory on both nodes,  *)
(* an empty broker, an idle caller.                                        *)

IdleCaller ==
    [ pc |-> "idle", op |-> "", arg |-> 0, index |-> 0, err |-> Nil,
      handled |-> "pending" ]

Init ==
    /\ server = StartedServer
    /\ \E pid \in PeerIDs : peer = [StartedServer EXCEPT !.id = pid]
    /\ queue = <<>>
    /\ brokerIndex = 0
    /\ caller = IdleCaller

----------------------------------------------------------------------------
(* The command surface: Server.broadcast publishes on the broadcast topic  *)
(* and waits in Sync.  handled records, for the caller's own message, what *)
(* its apply handler returned ("pending" until it has run).                *)

Broadcast(typ, data, op, arg) ==
    /\ caller.pc \in {"idle", "returned"}
    /\ ~server.panicked
    /\ brokerIndex < MaxIndex
    /\ brokerIndex' = brokerIndex + 1
    /\ queue' = Append(queue, [ type |-> typ, topic |-> BroadcastTopicID,
                                index |-> brokerIndex + 1, data |-> data ])
    /\ caller' = [ pc |-> "waiting", op |-> op, arg |-> arg,
                   index |-> brokerIndex + 1, err |-> Nil, handled |-> "pending" ]
    /\ UNCHANGED <<server, peer>>

CreateDataNode ==
    \E u \in URLs : Broadcast("createDataNode", [url |-> u], "CreateDataNode", 0)

DeleteDataNode ==
    \E id \in 1..MaxNodes :
        Broadcast("deleteDataNode", [id |-> id], "DeleteDataNode", 0)

CreateDatabase ==
    \E n \in DBNames : Broadcast("createDatabase", [name |-> n], "CreateDatabase", 0)

DeleteDatabase ==
    \E n \in DBNames : Broadcast("deleteDatabase", [name |-> n], "DeleteDatabase", 0)

CreateRetentionPolicy ==
    \E db \in DBNames, n \in PolicyNames, d \in Durations, r \in ReplicaNs :
        Broadcast("createRetentionPolicy",
                  [database |-> db, name |-> n, duration |-> d, replicaN |-> r],
                  "CreateRetentionPolicy", 0)

UpdateRetentionPolicy ==
    \E db \in DBNames, n \in PolicyNames, nn \in PolicyNames :
        Broadcast("updateRetentionPolicy",
                  [database |-> db, name |-> n, newName |-> nn],
                  "UpdateRetentionPolicy", 0)

DeleteRetentionPolicy ==
    \E db \in DBNames, n \in PolicyNames :
        Broadcast("deleteRetentionPolicy", [database |-> db, name |-> n],
                  "DeleteRetentionPolicy", 0)

SetDefaultRetentionPolicy ==
    \E db \in DBNames, n \in PolicyNames :
        Broadcast("setDefaultRetentionPolicy", [database |-> db, name |-> n],
                  "SetDefaultRetentionPolicy", 0)

CreateShardGroupIfNotExists ==
    \E db \in DBNames, n \in PolicyNames, ts \in Timestamps :
        Broadcast("createShardGroupIfNotExists",
                  [database |-> db, policy |-> n, timestamp |-> ts],
                  "CreateShardGroupIfNotExists", 0)

\* Server.Initialize on a new server: CreateDataNode, then the id.
Initialize ==
    /\ brokerIndex = 0
    /\ server.id = 0
    /\ \E u \in URLs : Broadcast("createDataNode", [url |-> u], "Initialize", u)

\* Server.Join on a new server: the cluster answers with the id of the data
\* node it created for this server.
Join ==
    /\ brokerIndex = 0
    /\ server.id = 0
    /\ caller.pc = "idle"
    /\ \E n \in 1..MaxNodes : server' = [server EXCEPT !.meta.id = n, !.id = n]
    /\ UNCHANGED <<peer, queue, brokerIndex, caller>>

\* Sync returns to the caller waiting in broadcast.
SyncReturn ==
    /\ caller.pc = "waiting"
    /\ ~server.panicked
    /\ server.index >= caller.index
    /\ LET r == Sync(server, caller.index) IN
        /\ caller' = [caller EXCEPT !.pc = "returned", !.err = r.err]
        /\ server' = IF caller.op = "Initialize" /\ r.err = Nil
                     THEN initializeID(r.s, caller.arg)
                     ELSE r.s
    /\ UNCHANGED <<peer, queue, brokerIndex>>

----------------------------------------------------------------------------
(* The broker.                                                             *)

\* A WriteSeries call, on this node or on another, publishes a raw point on
\* the topic of a shard this server has subscribed to.
PublishWrite ==
    /\ ~server.panicked
    /\ brokerIndex < MaxIndex
    /\ \E t \in server.subs :
        /\ brokerIndex' = brokerIndex + 1
        /\ queue' = Append(queue,
                [ type |-> "writeRawSeries", topic |-> t, index |-> brokerIndex + 1,
                  data |-> [seriesID |-> 1, timestamp |-> 0, values |-> "v"] ])
    /\ UNCHANGED <<server, peer, caller>>

\* The broker may deliver queue[i] next: messages of one topic arrive in log
\* order, the order across topics is not fixed.
Deliverable(i) ==
    /\ i \in 1..Len(queue)
    /\ queue[i].topic = BroadcastTopicID \/ queue[i].topic \in server.subs
    /\ \A j \in 1..(i - 1) : queue[j].topic # queue[i].topic

Remove(q, i) == [j \in 1..(Len(q) - 1) |-> IF j < i THEN q[j] ELSE q[j + 1]]

\* The processor receives message queue[i] and applies it; the peer applies
\* the broadcast messages of the same stream.
Process ==
    /\ ~server.panicked
    /\ server.procs # {}
    /\ \E i \in 1..Len(queue) :
        /\ Deliverable(i)
        /\ \E ord \in rangeOrders(queue[i]) :
            LET m == queue[i] IN
            /\ server' = processor(server, m, ord)
            /\ peer' = IF m.topic = BroadcastTopicID THEN apply(peer, m, ord).s ELSE peer
            /\ caller' = IF caller.index = m.index /\ ~processor(server, m, ord).panicked
                         THEN [caller EXCEPT !.handled = apply(server, m, ord).err]
                         ELSE caller
        /\ queue' = Remove(queue, i)
    /\ UNCHANGED brokerIndex

----------------------------------------------------------------------------
Next ==
    \/ Initialize
    \/ Join
    \/ CreateDataNode
    \/ DeleteDataNode
    \/ CreateDatabase
    \/ DeleteDatabase
    \/ CreateRetentionPolicy
    \/ UpdateRetentionPolicy
    \/ DeleteRetentionPolicy
    \/ SetDefaultRetentionPolicy
    \/ CreateShardGroupIfNotExists
    \/ SyncReturn
    \/ PublishWrite
    \/ Process

Spec == Init /\ [][Next]_vars

----------------------------------------------------------------------------
(* The write path.  Server.WriteSeries runs on the caller's goroutine in   *)
(* steps between which the processor may apply messages: the series        *)
(* lookup, the wait for createSeriesIfNotExists, the policy, measurement   *)
(* and shard group lookups, the wait for createShardGroupIfNotExists, and  *)
(* the publish on the shard's topic.                                       *)

MaxWrites == 2

TagSets == {"host=a", "host=b"}
WriteTimestamps == {0, 2}
WritePolicies == {"", "a"}
BulkNames == {100 + i : i \in 1..(MaxFieldID - 1)}
\* The value maps of the points written: field names 1 and 2.
WriteValues ==
    { EmptyMap, [k \in {1} |-> 10], [k \in {2} |-> 20], [k \in {1, 2} |-> 10 * k] }

Message(typ, topic, index, data) ==
    [ type |-> typ, topic |-> topic, index |-> index, data |-> data ]

\* The state of a server after it has applied the messages msgs in order,
\* a range over a value map visiting the keys in ascending order.
RECURSIVE applyAll(_, _)
applyAll(s, msgs) ==
    IF msgs = <<>> THEN s
    ELSE LET m == Head(msgs)
             ord == IF m.type = "writeSeries" THEN SortAsc(DOMAIN m.data.values)
                    ELSE <<>>
         IN applyAll(processor(s, m, ord), Tail(msgs))

\* A cluster of two data nodes with database "db" and its default policy "a"
\* of one replica.
SetupTopology ==
    << Message("createDataNode", BroadcastTopicID, 2, [url |-> 2]),
       Message("createDatabase", BroadcastTopicID, 3, [name |-> "db"]),
       Message("createRetentionPolicy", BroadcastTopicID, 4,
               [database |-> "db", name |-> "a", duration |-> 2, replicaN |-> 1]),
       Message("setDefaultRetentionPolicy", BroadcastTopicID, 5,
               [database |-> "db", name |-> "a"]) >>

\* One series of measurement "cpu", the shard group of timestamp 0, and
\* points with MaxFieldID - 1 field names in all, BulkChunk names a point,
\* written to the shard of the series (shard 2, a replica of which is on
\* node 1).
BulkChunk == 32

BulkPoints == ((MaxFieldID - 1) + (BulkChunk - 1)) \div BulkChunk

SetupFields ==
    << Message("createSeriesIfNotExists", BroadcastTopicID, 6,
               [database |-> "db", name |-> "cpu", tags |-> "host=a"]),
       Message("createShardGroupIfNotExists", BroadcastTopicID, 7,
               [database |-> "db", policy |-> "a", timestamp |-> 0]) >>
    \o [ i \in 1..BulkPoints |->
            Message("writeSeries", 2, 7 + i,
                    [ database |-> "db", measurement |-> "cpu", seriesID |-> 1,
                      timestamp |-> 0,
                      values |-> [k \in {n \in BulkNames :
                                            /\ n > 100 + (i - 1) * BulkChunk
                                            /\ n <= 100 + i * BulkChunk} |-> 1] ]) ]

\* Server.Initialize with URL 1, then the messages msgs.
InitializedServer(msgs) ==
    applyAll(initializeID(processor(StartedServer,
                                    Message("createDataNode", BroadcastTopicID, 1,
                                            [url |-> 1]),
                                    <<>>),
                          1),
             msgs)

IdleWriter ==
    [ pc |-> "idle", op |-> "", arg |-> EmptyMap, index |-> 0, err |-> Nil,
      handled |-> "pending", seriesID |-> 0, policy |-> "", group |-> <<>>,
      ret |-> 0, published |-> <<>>, writes |-> 0,
      issued |-> {} ]   \* the indexes of the messages the call has broadcast

InitWrite ==
    /\ \E msgs \in {SetupTopology, SetupTopology \o SetupFields} :
        /\ server = InitializedServer(msgs)
        /\ peer = [InitializedServer(SetupTopology) EXCEPT !.id = 2]
        /\ brokerIndex = Len(msgs) + 1
    /\ queue = <<>>
    /\ caller = IdleWriter

\* The end of a WriteSeries call: the index and the error it returns.
WriteReturn(c, index, err) == [c EXCEPT !.pc = "returned", !.ret = index, !.err = err]

\* Lines 1229-1238 and 1402-1417: the series is looked up under the read
\* lock; when it is missing createSeriesIfNotExists is broadcast.
WriteSeries ==
    /\ caller.pc \in {"idle", "returned"}
    /\ ~server.panicked
    /\ caller.writes < MaxWrites
    /\ \E db \in DBNames, rp \in WritePolicies, tags \in TagSets,
          ts \in WriteTimestamps, values \in WriteValues :
        LET arg == [ database |-> db, policy |-> rp, name |-> "cpu", tags |-> tags,
                     timestamp |-> ts, values |-> values ]
            c0  == [ IdleWriter EXCEPT !.op = "WriteSeries", !.arg = arg,
                                       !.writes = caller.writes + 1 ]
        IN IF ~Has(server.databases, db)
           THEN /\ caller' = WriteReturn(c0, 0, "database not found")
                /\ UNCHANGED <<queue, brokerIndex>>
           ELSE IF seriesIDOf(server.databases[db], "cpu", tags) # 0
           THEN /\ caller' = [c0 EXCEPT !.pc = "lookup",
                                  !.seriesID = seriesIDOf(server.databases[db], "cpu", tags)]
                /\ UNCHANGED <<queue, brokerIndex>>
           ELSE /\ brokerIndex' = brokerIndex + 1
                /\ queue' = Append(queue,
                        Message("createSeriesIfNotExists", BroadcastTopicID,
                                brokerIndex + 1,
                                [database |-> db, name |-> "cpu", tags |-> tags]))
                /\ caller' = [c0 EXCEPT !.pc = "syncSeries", !.index = brokerIndex + 1,
                                        !.issued = {brokerIndex + 1}]
    /\ UNCHANGED <<server, peer>>

\* Lines 1419-1428: the broadcast has synced; the series is looked up again.
WriteSyncSeries ==
    /\ caller.pc = "syncSeries"
    /\ ~server.panicked
    /\ server.index >= caller.index
    /\ LET r  == Sync(server, caller.index)
           id == IF Has(r.s.databases, caller.arg.database)
                 THEN seriesIDOf(r.s.databases[caller.arg.database],
                                 caller.arg.name, caller.arg.tags)
                 ELSE 0
       IN /\ server' = r.s
          /\ caller' = IF r.err # Nil THEN WriteReturn(caller, 0, r.err)
                       ELSE IF id = 0 THEN WriteReturn(caller, 0, "ErrSeriesNotFound")
                       ELSE [caller EXCEPT !.pc = "lookup", !.seriesID = id]
    /\ UNCHANGED <<peer, queue, brokerIndex>>

\* Lines 1240-1256 and 638-650: the policy (the default one for an empty
\* name), the measurement and the shard group of the timestamp; when the
\* group is missing createShardGroupIfNotExists is broadcast.
WriteLookup ==
    /\ caller.pc = "lookup"
    /\ ~server.panicked
    /\ LET a == caller.arg IN
       IF ~Has(server.databases, a.database)
       THEN /\ caller' = WriteReturn(caller, 0, "ErrDatabaseNotFound")
            /\ UNCHANGED <<queue, brokerIndex>>
       ELSE
       LET db == server.databases[a.database]
           rp == IF a.policy = "" THEN db.defaultRetentionPolicy ELSE a.policy
       IN IF a.policy = "" /\ ~Has(db.policies, db.defaultRetentionPolicy)
          THEN /\ caller' = WriteReturn(caller, 0, "ErrDefaultRetentionPolicyNotFound")
               /\ UNCHANGED <<queue, brokerIndex>>
          ELSE IF ~Has(db.measurements, a.name)
          THEN /\ caller' = WriteReturn(caller, 0, "ErrMeasurementNotFound")
               /\ UNCHANGED <<queue, brokerIndex>>
          ELSE IF ~Has(db.policies, rp)
          THEN /\ caller' = WriteReturn(caller, 0, "ErrRetentionPolicyNotFound")
               /\ UNCHANGED <<queue, brokerIndex>>
          ELSE IF groupExists(db.policies[rp], a.timestamp)
          THEN /\ caller' = [caller EXCEPT !.pc = "publish", !.policy = rp,
                    !.group = <<db.policies[rp].shardGroups[
                                    shardGroupByTimestamp(db.policies[rp], a.timestamp)]>>]
               /\ UNCHANGED <<queue, brokerIndex>>
          ELSE /\ brokerIndex' = brokerIndex + 1
               /\ queue' = Append(queue,
                       Message("createShardGroupIfNotExists", BroadcastTopicID,
                               brokerIndex + 1,
                               [database |-> a.database, policy |-> rp,
                                timestamp |-> a.timestamp]))
               /\ caller' = [caller EXCEPT !.pc = "syncGroup", !.policy = rp,
                                           !.index = brokerIndex + 1,
                                           !.issued = @ \cup {brokerIndex + 1},
                                           !.handled = "pending"]
    /\ UNCHANGED <<server, peer>>

\* Lines 645-653: the broadcast has synced; the group is looked up again
\* (it may still be missing: a nil group and a nil error).
WriteSyncGroup ==
    /\ caller.pc = "syncGroup"
    /\ ~server.panicked
    /\ server.index >= caller.index
    /\ LET r == Sync(server, caller.index)
           a == caller.arg
       IN /\ server' = r.s
          /\ caller' =
                IF r.err # Nil THEN WriteReturn(caller, 0, r.err)
                ELSE IF ~Has(r.s.databases, a.database)
                THEN WriteReturn(caller, 0, "ErrDatabaseNotFound")
                ELSE IF ~Has(r.s.databases[a.database].policies, caller.policy)
                THEN WriteReturn(caller, 0, "ErrRetentionPolicyNotFound")
                ELSE LET rp == r.s.databases[a.database].policies[caller.policy]
                     IN [caller EXCEPT !.pc = "publish",
                            !.group = IF groupExists(rp, a.timestamp)
                                      THEN <<rp.shardGroups[
                                                shardGroupByTimestamp(rp, a.timestamp)]>>
                                      ELSE <<>>]
    /\ UNCHANGED <<peer, queue, brokerIndex>>

\* A variant of ShardBySeriesID that takes the first shard of the group.
firstShard(g, seriesID) == g.Shards[1]

\* ShardGroup.ShardBySeriesID: the shard of the group the write path picks.
ShardBySeriesID(g, seriesID) == g.Shards[(seriesID % Len(g.Shards)) + 1]

\* Line 1472: the shard of the group the read path picks.
readShard(g, seriesID) == g.Shards[(seriesID % Len(g.Shards)) + 1]

\* A variant of pointTopic that names the broadcast topic.
pointTopicBroadcast(sh) == BroadcastTopicID

\* Lines 1289 and 1304: the topic of a point is the id of its shard.
pointTopic(sh) == sh.ID

\* A variant of hasNoValues that finds values in every point.
hasSomeValues(values) == FALSE

\* Line 1269: a point without values.
hasNoValues(values) == DOMAIN values = {}

\* Lines 1265-1306: the shard of the series, then nothing for a point
\* without values, else a raw message when every key has a field and a
\* non-raw one otherwise, on the topic of the shard.  A nil group is
\* dereferenced by ShardBySeriesID, which panics.
WritePublish ==
    /\ caller.pc = "publish"
    /\ ~server.panicked
    /\ IF caller.group = <<>>
       THEN /\ server' = [server EXCEPT !.panicked = TRUE]
            /\ UNCHANGED <<caller, queue, brokerIndex>>
       ELSE
       LET a   == caller.arg
           sh  == ShardBySeriesID(caller.group[1], caller.seriesID)
           mm  == server.databases[a.database].measurements[a.name]
           raw == mapValues(mm.Fields, a.values)
           msg == IF raw = <<>>
                  THEN Message("writeSeries", pointTopic(sh), brokerIndex + 1,
                               [ database |-> a.database, measurement |-> a.name,
                                 seriesID |-> caller.seriesID,
                                 timestamp |-> a.timestamp, values |-> a.values ])
                  ELSE Message("writeRawSeries", pointTopic(sh), brokerIndex + 1,
                               [ seriesID |-> caller.seriesID,
                                 timestamp |-> a.timestamp,
                                 values |-> marshalValues(raw[1]) ])
       IN IF hasNoValues(a.values)
          THEN /\ caller' = WriteReturn(caller, 0, Nil)
               /\ UNCHANGED <<server, queue, brokerIndex>>
          ELSE /\ brokerIndex' = brokerIndex + 1
               /\ queue' = Append(queue, msg)
               /\ caller' = [WriteReturn(caller, brokerIndex + 1, Nil)
                                EXCEPT !.published = <<msg>>]
               /\ UNCHANGED server
    /\ UNCHANGED peer

NextWrite ==
    \/ WriteSeries
    \/ WriteSyncSeries
    \/ WriteLookup
    \/ WriteSyncGroup
    \/ WritePublish
    \/ Process

SpecWrite == InitWrite /\ [][NextWrite]_vars

\* The write path next to the callers of another node: their WriteSeries
\* calls broadcast createSeriesIfNotExists for a series this server does not
\* have yet, and publish points on the topics of the shards, some of which
\* this server has subscribed to.  At most one message of each kind is in
\* flight.
InFlight(typ) == \E i \in 1..Len(queue) : queue[i].type = typ

ForeignSeries ==
    /\ ~server.panicked
    /\ brokerIndex < Len(SetupTopology) + 1 + MaxIndex
    /\ ~InFlight("createSeriesIfNotExists")
    /\ \E db \in DBNames, tags \in TagSets :
        /\ Has(server.databases, db)
        /\ seriesIDOf(server.databases[db], "cpu", tags) = 0
        /\ queue' = Append(queue,
                    Message("createSeriesIfNotExists", BroadcastTopicID,
                            brokerIndex + 1,
                            [database |-> db, name |-> "cpu", tags |-> tags]))
    /\ brokerIndex' = brokerIndex + 1
    /\ UNCHANGED <<server, peer, caller>>

ForeignWrite ==
    /\ ~server.panicked
    /\ brokerIndex < Len(SetupTopology) + 1 + MaxIndex
    /\ ~InFlight("writeRawSeries")
    /\ \E topic \in server.subs :
        queue' = Append(queue,
                    Message("writeRawSeries", topic, brokerIndex + 1,
                            [ seriesID |-> 1, timestamp |-> 0,
                              values |-> marshalValues([k \in {1} |-> 10]) ]))
    /\ brokerIndex' = brokerIndex + 1
    /\ UNCHANGED <<server, peer, caller>>

NextCluster ==
    \/ WriteSeries
    \/ WriteSyncSeries
    \/ WriteLookup
    \/ WriteSyncGroup
    \/ WritePublish
    \/ ForeignSeries
    \/ ForeignWrite
    \/ Process

SpecCluster == InitWrite /\ [][NextCluster]_vars

\* Server.ReadSeries (lines 1432-1497): the values of the point of a series
\* at a timestamp, under their field names; found is FALSE for a nil map.
ReadSeries(s, database, retentionPolicy, name, tags, timestamp) ==
    LET none(e) == [values |-> EmptyMap, found |-> FALSE, err |-> e] IN
    IF ~Has(s.databases, database) THEN none("ErrDatabaseNotFound")
    ELSE
    LET db == s.databases[database]
        rp == IF retentionPolicy = "" THEN db.defaultRetentionPolicy
              ELSE retentionPolicy
    IN
    IF ~Has(db.measurements, name) THEN none("ErrMeasurementNotFound")
    ELSE IF seriesIDOf(db, name, tags) = 0 THEN none("ErrSeriesNotFound")
    ELSE IF ~Has(db.policies, rp) THEN none("ErrRetentionPolicyNotFound")
    ELSE IF ~groupExists(db.policies[rp], timestamp) THEN none(Nil)
    ELSE
    LET id  == seriesIDOf(db, name, tags)
        g   == db.policies[rp].shardGroups[shardGroupByTimestamp(db.policies[rp], timestamp)]
        sh  == readShard(g, id)
        mm  == db.measurements[name]
    IN
    IF ~sh.open THEN none("panic")
    ELSE IF ~Has(s.stores, sh.ID) \/ ~Has(s.stores[sh.ID], <<id, timestamp>>)
    THEN none(Nil)
    ELSE
    LET rawValues == unmarshalValues(s.stores[sh.ID][<<id, timestamp>>])
        known     == {fid \in DOMAIN rawValues : FieldName(mm.Fields, fid) # 0}
    IN [ values |-> [n \in {FieldName(mm.Fields, fid) : fid \in known} |->
                        rawValues[FieldByName(mm.Fields, n)]],
         found  |-> TRUE,
         err    |-> Nil ]

----------------------------------------------------------------------------
(* Data nodes alone: CreateDataNode with every spelling of a URL, the      *)
(* empty one included, and DeleteDataNode.                                 *)

RawURLs == {0} \cup URLs \cup {10 + 1}

CreateDataNodeRaw ==
    \E u \in RawURLs : Broadcast("createDataNode", [url |-> u], "CreateDataNode", u)

NextNodes ==
    \/ CreateDataNodeRaw
    \/ DeleteDataNode
    \/ SyncReturn
    \/ Process

SpecNodes == Init /\ [][NextNodes]_vars

----------------------------------------------------------------------------
(* Server.ExecuteQuery.  A statement is a record with its kind and, for a  *)
(* command, the name it carries; a result is a record with the error, and  *)
(* set is FALSE while the slot of the result list is nil.                  *)

MaxStatements == 2

Statements ==
    { [kind |-> "CreateDatabase", name |-> "db"],
      [kind |-> "DropDatabase", name |-> "db"],
      [kind |-> "ListDatabases", name |-> ""],
      [kind |-> "ListSeries", name |-> ""] }

Queries == UNION { [1..n -> Statements] : n \in 0..MaxStatements }

\* The statement kinds whose case of the switch is a bare continue.
SkippedKinds ==
    { "DropSeries", "ListSeries", "ListMeasurements", "ListTagKeys", "ListTagValues",
      "ListFieldKeys", "ListFieldValues", "Grant", "Revoke",
      "CreateContinuousQuery", "DropContinuousQuery", "ListContinuousQueries" }

NilResult == [set |-> FALSE, Err |-> Nil]

Result(e) == [set |-> TRUE, Err |-> e]

\* Lines 1561-1566: the nil slots of the list become NotExecuted results.
fillResults(results) ==
    [i \in 1..Len(results) |->
        IF results[i].set THEN results[i] ELSE Result("ErrNotExecuted")]

ExecuteQuery ==
    /\ caller.pc \in {"idle", "returned"}
    /\ ~server.panicked
    /\ brokerIndex < MaxIndex
    /\ \E q \in Queries :
        caller' = [ pc |-> "exec", op |-> "ExecuteQuery", arg |-> 0, index |-> 0,
                    err |-> Nil, handled |-> "pending", query |-> q, i |-> 1,
                    results |-> [k \in 1..Len(q) |-> NilResult],
                    executed |-> {} ]
    /\ UNCHANGED <<server, peer, queue, brokerIndex>>

\* One turn of the loop of lines 1508-1559 up to the call of the command:
\* the end of the loop, a skipped kind, a list statement, or the broadcast of
\* a command.
QueryStatement ==
    /\ caller.pc = "exec"
    /\ ~server.panicked
    /\ IF caller.i > Len(caller.query)
       THEN /\ caller' = [caller EXCEPT !.pc = "returned",
                                        !.results = fillResults(caller.results)]
            /\ UNCHANGED <<queue, brokerIndex>>
       ELSE
       LET stmt == caller.query[caller.i] IN
       IF stmt.kind \in SkippedKinds
       THEN /\ caller' = [caller EXCEPT !.i = caller.i + 1]
            /\ UNCHANGED <<queue, brokerIndex>>
       ELSE IF stmt.kind = "ListDatabases"
       THEN /\ caller' = [caller EXCEPT !.i = caller.i + 1,
                                        !.results[caller.i] = Result(Nil),
                                        !.executed = @ \cup {caller.i}]
            /\ UNCHANGED <<queue, brokerIndex>>
       ELSE /\ brokerIndex' = brokerIndex + 1
            /\ queue' = Append(queue,
                    Message(IF stmt.kind = "CreateDatabase" THEN "createDatabase"
                            ELSE "deleteDatabase",
                            BroadcastTopicID, brokerIndex + 1, [name |-> stmt.name]))
            /\ caller' = [caller EXCEPT !.pc = "sync", !.index = brokerIndex + 1,
                                        !.handled = "pending",
                                        !.executed = @ \cup {caller.i}]
    /\ UNCHANGED <<server, peer>>

\* The command of the statement has synced: its error is the result; an
\* error ends the loop (lines 1554-1558) and the list is filled.
QuerySync ==
    /\ caller.pc = "sync"
    /\ ~server.panicked
    /\ server.index >= caller.index
    /\ LET r == Sync(server, caller.index)
           results == [caller.results EXCEPT ![caller.i] = Result(r.err)]
       IN /\ server' = r.s
          /\ caller' = IF r.err # Nil
                       THEN [caller EXCEPT !.pc = "returned",
                                           !.results = fillResults(results)]
                       ELSE [caller EXCEPT !.pc = "exec", !.i = caller.i + 1,
                                           !.results = results]
    /\ UNCHANGED <<peer, queue, brokerIndex>>

NextQuery ==
    \/ ExecuteQuery
    \/ QueryStatement
    \/ QuerySync
    \/ Process

SpecQuery == Init /\ [][NextQuery]_vars

----------------------------------------------------------------------------
(* The life of the server: SetClient, Close, and the goroutine of          *)
(* Server.processor, next to a caller of CreateDatabase.                   *)

MaxClients == 2

\* Server.SetClient with client 1 or with nil.
SetClient ==
    /\ ~server.panicked
    /\ server.doneSeq < MaxClients
    /\ \E c \in {0, 1} : server' = setClient(server, c).s
    /\ UNCHANGED <<peer, queue, brokerIndex, caller>>

\* Server.Close on an open server.
CloseServer ==
    /\ ~server.panicked
    /\ opened(server)
    /\ server' = Close(server).s
    /\ UNCHANGED <<peer, queue, brokerIndex, caller>>

\* Lines 1823-1825: a processor goroutine whose done channel is closed
\* returns.
ProcessorExit ==
    /\ ~server.panicked
    /\ \E p \in server.procs :
        /\ p.done \in server.closedDone
        /\ ~Has(server.held, p.done)
        /\ server' = [server EXCEPT !.procs = @ \ {p}]
    /\ UNCHANGED <<peer, queue, brokerIndex, caller>>

\* Server.CreateDatabase: s.client.Publish on a nil client panics.
CreateDatabaseLive ==
    IF server.client = 0
    THEN /\ caller.pc \in {"idle", "returned"}
         /\ ~server.panicked
         /\ server' = [server EXCEPT !.panicked = TRUE]
         /\ UNCHANGED <<peer, queue, brokerIndex, caller>>
    ELSE CreateDatabase

NextLife ==
    \/ SetClient
    \/ CloseServer
    \/ ProcessorExit
    \/ CreateDatabaseLive
    \/ SyncReturn
    \/ Process

SpecLife == Init /\ [][NextLife]_vars

\* The goroutines of the processor and of the caller in Sync are scheduled
\* whenever they can take a step.
SpecLifeFair ==
    /\ Init
    /\ [][NextLife]_vars
    /\ WF_vars(Process)
    /\ WF_vars(ProcessorExit)
    /\ WF_vars(SyncReturn)

----------------------------------------------------------------------------
(* The goroutines of Server.processor one statement at a time: the select  *)
(* of lines 1823-1830 with the check of line 1834, then the handler with   *)
(* the high water mark.  SetClient, Close and Join run next to them.       *)

\* Server.ID and Server.Path.
ID(s) == s.id

Path(s) == s.path

\* Lines 1823-1836: a processor that holds no message receives the next one
\* of its client's channel.  The select may take this case although the done
\* channel is closed.  The message is dropped when the server is closed.
Receive ==
    /\ ~server.panicked
    /\ \E p \in server.procs :
        /\ ~Has(server.held, p.done)
        /\ \E i \in 1..Len(queue) :
            /\ Deliverable(i)
            /\ server' = IF opened(server)
                         THEN [server EXCEPT !.held = Put(@, p.done, queue[i])]
                         ELSE server
            /\ queue' = Remove(queue, i)
    /\ UNCHANGED <<peer, brokerIndex, caller>>

\* Lines 1838-1879: a processor applies the message it holds.
Apply ==
    /\ ~server.panicked
    /\ \E p \in server.procs :
        /\ Has(server.held, p.done)
        /\ \E ord \in rangeOrders(server.held[p.done]) :
            server' = applyAndSync([server EXCEPT !.held = Del(@, p.done)],
                                   server.held[p.done], ord)
    /\ UNCHANGED <<peer, queue, brokerIndex, caller>>

NextProc ==
    \/ Join
    \/ SetClient
    \/ CloseServer
    \/ ProcessorExit
    \/ CreateDatabaseLive
    \/ SyncReturn
    \/ Receive
    \/ Apply

SpecProc == Init /\ [][NextProc]_vars

----------------------------------------------------------------------------
(* A metastore that may refuse updates (a full disk, an I/O error), next   *)
(* to the commands on data nodes, databases and retention policies.        *)

\* The metastore starts or stops refusing updates.
MetaFault ==
    /\ ~server.panicked
    /\ server' = [server EXCEPT !.meta.failing = ~@]
    /\ UNCHANGED <<peer, queue, brokerIndex, caller>>

NextMeta ==
    \/ MetaFault
    \/ CreateDataNode
    \/ DeleteDataNode
    \/ CreateDatabase
    \/ DeleteDatabase
    \/ CreateRetentionPolicy
    \/ UpdateRetentionPolicy
    \/ DeleteRetentionPolicy
    \/ SetDefaultRetentionPolicy
    \/ SyncReturn
    \/ Process

SpecMeta == Init /\ [][NextMeta]_vars

----------------------------------------------------------------------------
(* The topology lock s.mu.  Two goroutines call CreateDatabase and         *)
(* WriteSeries (as far as createSeriesIfNotExists) while the processor      *)
(* applies their messages; every Lock, RLock, Unlock and RUnlock of the    *)
(* code is a step.  server.mu.w is the goroutine that holds the lock        *)
(* exclusively (0: none), server.mu.r[t] the number of RLock calls of       *)
(* goroutine t that no RUnlock has answered.  In this specification caller *)
(* is a function of the goroutines.                                        *)

Threads == {1, 2}

\* The goroutine of Server.processor, numbered after the callers.
Processor == Cardinality(Threads) + 1

MaxLeaks == 1

LockNames == {"cpu"}

\* sync.RWMutex: Lock waits for the writer and for every reader; RLock for
\* the writer and, the lock being write-preferring, for a Lock that has
\* been called and waits for the readers to leave.
CanLock(s) == s.mu.w = 0 /\ \A t \in DOMAIN s.mu.r : s.mu.r[t] = 0

CanRLock(s) == s.mu.w = 0 /\ ~s.mu.pending

RLock(s, t) == [s EXCEPT !.mu.r[t] = @ + 1]

RUnlock(s, t) == [s EXCEPT !.mu.r[t] = @ - 1]

\* Goroutine t holds the lock, shared or exclusive.
Holds(s, t) == s.mu.w = t \/ s.mu.r[t] > 0

InitLock ==
    /\ server = [StartedServer EXCEPT !.mu.r = [t \in Threads |-> 0]]
    /\ \E pid \in PeerIDs : peer = [StartedServer EXCEPT !.id = pid]
    /\ queue = <<>>
    /\ brokerIndex = 0
    /\ caller = [t \in Threads |-> IdleCaller]

\* Lines 264-280 of broadcast: goroutine t publishes and enters Sync.
Publish(t, typ, data, op) ==
    /\ brokerIndex < MaxIndex
    /\ brokerIndex' = brokerIndex + 1
    /\ queue' = Append(queue, [ type |-> typ, topic |-> BroadcastTopicID,
                                index |-> brokerIndex + 1, data |-> data ])
    /\ caller' = [caller EXCEPT ![t] =
                    [ pc |-> "sync", op |-> op, arg |-> data,
                      index |-> brokerIndex + 1, err |-> Nil, handled |-> "pending",
                      seriesID |-> 0 ]]
    /\ UNCHANGED <<server, peer>>

\* Server.CreateDatabase by goroutine t.
LockCreateDatabase ==
    \E t \in Threads, n \in DBNames :
        /\ caller[t].pc \in {"idle", "returned"}
        /\ Publish(t, "createDatabase", [name |-> n], "CreateDatabase")

\* Line 293 of Sync: RLock.
SyncRLockOf(t) ==
    /\ caller[t].pc = "sync"
    /\ CanRLock(server)
    /\ server' = RLock(server, t)
    /\ caller' = [caller EXCEPT ![t].pc = "syncLocked"]
    /\ UNCHANGED <<peer, queue, brokerIndex>>

SyncRLock == \E t \in Threads : SyncRLockOf(t)

\* Lines 294-305 of Sync: with the index reached the error is deleted from
\* the map and returned; else the loop sleeps.  Both paths RUnlock.
SyncCheckOf(t) ==
    /\ caller[t].pc = "syncLocked"
    /\ IF server.index >= caller[t].index
       THEN LET r == Sync(server, caller[t].index) IN
            /\ server' = RUnlock(r.s, t)
            /\ caller' = [caller EXCEPT
                    ![t].err = r.err,
                    ![t].pc = IF caller[t].op = "WriteSeries" /\ r.err = Nil
                              THEN "seriesLookup" ELSE "returned"]
       ELSE /\ server' = RUnlock(server, t)
            /\ caller' = [caller EXCEPT ![t].pc = "sync"]
    /\ UNCHANGED <<peer, queue, brokerIndex>>

SyncCheck == \E t \in Threads : SyncCheckOf(t)

\* Line 1404 of createSeriesIfNotExists, called by WriteSeries: RLock.
SeriesRLock ==
    \E t \in Threads, n \in DBNames, name \in LockNames :
        /\ caller[t].pc \in {"idle", "returned"}
        /\ server.mu.r[t] < MaxLeaks
        /\ CanRLock(server)
        /\ server' = RLock(server, t)
        /\ caller' = [caller EXCEPT ![t] =
                [ pc |-> "series", op |-> "WriteSeries",
                  arg |-> [database |-> n, name |-> name, tags |-> ""],
                  index |-> 0, err |-> Nil, handled |-> "pending",
                  seriesID |-> 0 ]]   \* the series id the call returns
        /\ UNCHANGED <<peer, queue, brokerIndex>>

\* Lines 1405-1414: without the database the call returns and leaves the
\* lock read-locked; with the series it RUnlocks and returns the id; else it
\* RUnlocks and goes on to broadcast.
SeriesFind ==
    \E t \in Threads :
        /\ caller[t].pc = "series"
        /\ LET a == caller[t].arg IN
           IF ~Has(server.databases, a.database)
           THEN /\ server' = server
                /\ caller' = [caller EXCEPT ![t].pc = "returned",
                                            ![t].err = "database not found"]
           ELSE IF seriesIDOf(server.databases[a.database], a.name, a.tags) # 0
           THEN /\ server' = RUnlock(server, t)
                /\ caller' = [caller EXCEPT
                        ![t].pc = "returned",
                        ![t].seriesID = seriesIDOf(server.databases[a.database],
                                                   a.name, a.tags)]
           ELSE /\ server' = RUnlock(server, t)
                /\ caller' = [caller EXCEPT ![t].pc = "seriesBroadcast"]
        /\ UNCHANGED <<peer, queue, brokerIndex>>

\* Lines 1417-1418: the broadcast of createSeriesIfNotExists.
SeriesBroadcast ==
    \E t \in Threads :
        /\ caller[t].pc = "seriesBroadcast"
        /\ Publish(t, "createSeriesIfNotExists", caller[t].arg, "WriteSeries")

\* The series id a lookup in the index of database db of s answers (0: a
\* nil series).  db names the database the caller holds a pointer to.
lookupSeries(s, db, name, tags) ==
    IF Has(s.databases, db) THEN seriesIDOf(s.databases[db], name, tags) ELSE 0

\* What a lookup made without the lock may answer: what the index holds, or,
\* while a handler is writing the index of the database (a data race on its
\* maps), what it held, what it will hold, or nothing.
racyLookup(s, db, name, tags) ==
    {lookupSeries(s, db, name, tags)}
    \cup UNION { LET after == apply(s, s.held[d], <<>>).s IN
                 IF s.procAt = "handler" /\ Has(s.databases, db)
                    /\ Has(after.databases, db)
                    /\ after.databases[db] # s.databases[db]
                 THEN {0, lookupSeries(after, db, name, tags)}
                 ELSE {} : d \in DOMAIN s.held }

\* Lines 1424-1428: the second lookup, made without the lock.
SeriesLookup ==
    \E t \in Threads :
        /\ caller[t].pc = "seriesLookup"
        /\ LET a == caller[t].arg IN
           \E id \in racyLookup(server, a.database, a.name, a.tags) :
                caller' = [caller EXCEPT
                    ![t].pc = "returned",
                    ![t].seriesID = id,
                    ![t].err = IF id # 0 THEN Nil ELSE "ErrSeriesNotFound"]
        /\ UNCHANGED <<server, peer, queue, brokerIndex>>

\* The processor receives a message (lines 1823-1836) and its handler
\* calls s.mu.Lock (the head of every applyX).
HandlerReceive ==
    /\ server.procAt = "select"
    /\ \E p \in server.procs, i \in 1..Len(queue) :
        /\ Deliverable(i)
        /\ server' = [server EXCEPT !.held = Put(@, p.done, queue[i]),
                                    !.mu.pending = TRUE,
                                    !.procAt = "handlerLock"]
        /\ queue' = Remove(queue, i)
    /\ UNCHANGED <<peer, brokerIndex, caller>>

\* The Lock of the handler is granted.
HandlerLock ==
    /\ server.procAt = "handlerLock"
    /\ CanLock(server)
    /\ server' = [server EXCEPT !.mu.w = Processor,
                                !.mu.pending = FALSE,
                                !.procAt = "handler"]
    /\ UNCHANGED <<peer, queue, brokerIndex, caller>>

\* The body of the handler and its deferred Unlock.
HandlerReturn ==
    /\ server.procAt = "handler"
    /\ \E d \in DOMAIN server.held :
        LET r == apply(server, server.held[d], <<>>)
        IN server' = [r.s EXCEPT !.mu.w = 0, !.procAt = "applied", !.procErr = r.err]
    /\ UNCHANGED <<peer, queue, brokerIndex, caller>>

\* Line 1874: Lock is called.
IndexWant ==
    /\ server.procAt = "applied"
    /\ server' = [server EXCEPT !.mu.pending = TRUE, !.procAt = "indexLock"]
    /\ UNCHANGED <<peer, queue, brokerIndex, caller>>

\* Line 1874: Lock is granted.
IndexLock ==
    /\ server.procAt = "indexLock"
    /\ CanLock(server)
    /\ server' = [server EXCEPT !.mu.w = Processor,
                                !.mu.pending = FALSE,
                                !.procAt = "sync"]
    /\ UNCHANGED <<peer, queue, brokerIndex, caller>>

\* Lines 1875-1879: the high water mark, the error, Unlock.
IndexWrite ==
    /\ server.procAt = "sync"
    /\ \E d \in DOMAIN server.held :
        LET m == server.held[d]
        IN server' = [server EXCEPT
                !.index = syncIndex(server, m),
                !.errors = IF server.procErr # Nil
                           THEN Put(@, m.index, server.procErr) ELSE @,
                !.held = Del(@, d),
                !.mu.w = 0,
                !.procAt = "select",
                !.procErr = Nil]
    /\ UNCHANGED <<peer, queue, brokerIndex, caller>>

NextLock ==
    \/ LockCreateDatabase
    \/ SyncRLock
    \/ SyncCheck
    \/ SeriesRLock
    \/ SeriesFind
    \/ SeriesBroadcast
    \/ SeriesLookup
    \/ HandlerReceive
    \/ HandlerLock
    \/ HandlerReturn
    \/ IndexWant
    \/ IndexLock
    \/ IndexWrite

SpecLock == InitLock /\ [][NextLock]_vars

\* Fair scheduling of the goroutines.  A goroutine that can run does run
\* (WF); sync.RWMutex starves neither a Lock nor an RLock that can be
\* granted again and again (SF).  Nothing obliges a public operation to be
\* called.
SpecLockFair ==
    /\ SpecLock
    /\ \A t \in Threads : SF_vars(SyncRLockOf(t)) /\ WF_vars(SyncCheckOf(t))
    /\ WF_vars(SeriesFind)
    /\ WF_vars(SeriesBroadcast)
    /\ WF_vars(SeriesLookup)
    /\ WF_vars(HandlerReceive)
    /\ SF_vars(HandlerLock)
    /\ WF_vars(HandlerReturn)
    /\ WF_vars(IndexWant)
    /\ SF_vars(IndexLock)
    /\ WF_vars(IndexWrite)

----------------------------------------------------------------------------
(* A rename and the rename back.  The server has applied the messages that *)
(* built a database; the two updateRetentionPolicy messages are applied    *)
(* one after the other, and the caller keeps the database as it was.       *)

RenameNames == {"a", "b", "c"}

\* The messages msgs with the indexes that follow the message of Initialize.
Renumber(msgs) == [i \in 1..Len(msgs) |-> [msgs[i] EXCEPT !.index = i + 1]]

\* Messages that create database "db" with the policies pols (policy "a" of
\* one replica, policy "b" of two), the default policy def and, when grp
\* holds, the shard group of timestamp 0 of policy "a".
RenameSetup(pols, def, grp) ==
    Renumber(
        << Message("createDatabase", BroadcastTopicID, 0, [name |-> "db"]) >>
        \o (IF "a" \in pols
            THEN << Message("createRetentionPolicy", BroadcastTopicID, 0,
                            [database |-> "db", name |-> "a", duration |-> 2,
                             replicaN |-> 1]) >>
            ELSE <<>>)
        \o (IF "b" \in pols
            THEN << Message("createRetentionPolicy", BroadcastTopicID, 0,
                            [database |-> "db", name |-> "b", duration |-> 2,
                             replicaN |-> 2]) >>
            ELSE <<>>)
        \o (IF def # ""
            THEN << Message("setDefaultRetentionPolicy", BroadcastTopicID, 0,
                            [database |-> "db", name |-> def]) >>
            ELSE <<>>)
        \o (IF grp
            THEN << Message("createShardGroupIfNotExists", BroadcastTopicID, 0,
                            [database |-> "db", policy |-> "a", timestamp |-> 0]) >>
            ELSE <<>>) )

IdleRenamer ==
    [ pc |-> "idle", database |-> "", A |-> "", B |-> "", index |-> 0,
      handled |-> "pending", before |-> newDatabase(""), err1 |-> Nil, err2 |-> Nil ]

InitRename ==
    /\ \E pols \in SUBSET {"a", "b"}, def \in {"", "a", "b"}, grp \in BOOLEAN :
        /\ def # "" => def \in pols
        /\ grp => "a" \in pols
        /\ server = InitializedServer(RenameSetup(pols, def, grp))
        /\ brokerIndex = Len(RenameSetup(pols, def, grp)) + 1
    /\ peer = [StartedServer EXCEPT !.id = 2]
    /\ queue = <<>>
    /\ caller = IdleRenamer

\* The message of UpdateRetentionPolicy(db, name, newName) is published and
\* applied; the result is the server after it and the handler's error.
UpdateApplied(db, name, newName) ==
    LET m == Message("updateRetentionPolicy", BroadcastTopicID, brokerIndex + 1,
                     [database |-> db, name |-> name, newName |-> newName])
    IN [ s |-> processor(server, m, <<>>), err |-> apply(server, m, <<>>).err ]

\* updateRetentionPolicy(db, A, newName = B) is applied.
RenameThere ==
    /\ caller.pc = "idle"
    /\ \E db \in DBNames, A \in RenameNames, B \in RenameNames :
        /\ server' = UpdateApplied(db, A, B).s
        /\ caller' = [caller EXCEPT !.pc = "there", !.database = db, !.A = A, !.B = B,
                                    !.before = server.databases[db],
                                    !.err1 = UpdateApplied(db, A, B).err]
    /\ brokerIndex' = brokerIndex + 1
    /\ UNCHANGED <<peer, queue>>

\* updateRetentionPolicy(db, B, newName = A) is applied.
RenameBack ==
    /\ caller.pc = "there"
    /\ server' = UpdateApplied(caller.database, caller.B, caller.A).s
    /\ caller' = [caller EXCEPT !.pc = "back",
                    !.err2 = UpdateApplied(caller.database, caller.B, caller.A).err]
    /\ brokerIndex' = brokerIndex + 1
    /\ UNCHANGED <<peer, queue>>

NextRename ==
    \/ RenameThere
    \/ RenameBack

SpecRename == InitRename /\ [][NextRename]_vars

----------------------------------------------------------------------------
(* The assignment of data nodes to the shards of a new group, for clusters *)
(* of up to MaxAssignNodes data nodes (some of them deleted again, so that *)
(* the ids need not be consecutive), every replication factor up to one    *)
(* more than that, and log indexes of every remainder.                     *)

MaxAssignNodes == 4

\* The log indexes the broker has given to other messages before the first
\* createShardGroupIfNotExists, at most.
MaxAssignSkip == 3

\* Messages that leave the data nodes ids (node 1 is made by Initialize) and
\* database "db" with policy "a" of replication factor r.
AssignSetup(ids, r) ==
    Renumber(
        [ i \in 1..(MaxAssignNodes - 1) |->
            Message("createDataNode", BroadcastTopicID, 0, [url |-> i + 1]) ]
        \o [ i \in 1..(MaxAssignNodes - Cardinality(ids)) |->
            Message("deleteDataNode", BroadcastTopicID, 0,
                    [id |-> SortAsc((1..MaxAssignNodes) \ ids)[i]]) ]
        \o << Message("createDatabase", BroadcastTopicID, 0, [name |-> "db"]),
              Message("createRetentionPolicy", BroadcastTopicID, 0,
                      [database |-> "db", name |-> "a", duration |-> 2,
                       replicaN |-> r]) >> )

InitAssign ==
    /\ \E ids \in (SUBSET (1..MaxAssignNodes)) \ {{}},
          r \in 0..(MaxAssignNodes + 1),
          skip \in 0..MaxAssignSkip :
        /\ server = InitializedServer(AssignSetup(ids, r))
        /\ brokerIndex = Len(AssignSetup(ids, r)) + 1 + skip
    /\ peer = [StartedServer EXCEPT !.id = 2]
    /\ queue = <<>>
    /\ caller = IdleCaller

\* createShardGroupIfNotExists(db, a, ts) is published and applied.
AssignGroup ==
    /\ ~server.panicked
    /\ brokerIndex < 2 * MaxAssignNodes + 3 + MaxAssignSkip
    /\ \E ts \in Timestamps :
        server' = processor(server,
                            Message("createShardGroupIfNotExists", BroadcastTopicID,
                                    brokerIndex + 1,
                                    [database |-> "db", policy |-> "a",
                                     timestamp |-> ts]),
                            <<>>)
    /\ brokerIndex' = brokerIndex + 1
    /\ UNCHANGED <<peer, queue, caller>>

NextAssign == AssignGroup

SpecAssign == InitAssign /\ [][NextAssign]_vars

----------------------------------------------------------------------------
(* The errors map in a cluster: next to the local caller, other nodes      *)
(* broadcast commands; this server applies every message of the broadcast  *)
(* topic, and only the local caller waits in Sync on this server.          *)

\* Server.CreateDatabase or Server.DeleteDatabase called on another node:
\* its broadcast publishes the message, and its Sync runs on that node.
ForeignCommand ==
    /\ ~server.panicked
    /\ brokerIndex < MaxIndex
    /\ \E typ \in {"createDatabase", "deleteDatabase"}, n \in DBNames :
        queue' = Append(queue, Message(typ, BroadcastTopicID, brokerIndex + 1,
                                       [name |-> n]))
    /\ brokerIndex' = brokerIndex + 1
    /\ UNCHANGED <<server, peer, caller>>

NextErrors ==
    \/ CreateDatabase
    \/ DeleteDatabase
    \/ ForeignCommand
    \/ SyncReturn
    \/ Process

SpecErrors == Init /\ [][NextErrors]_vars

----------------------------------------------------------------------------
(* A restart.  The process of the server ends and a new one is started on  *)
(* the same directory: a fresh server opens the path, whose metastore      *)
(* holds what the handlers have persisted, and is given a client.          *)

\* openServer of cmd/influxd/run.go on a directory that exists: NewServer,
\* Open, SetClient.  The metastore is the one the old process has left.
Restart ==
    /\ ~server.panicked
    /\ caller.op # "Open"
    /\ server' = setClient(Open([NewServer EXCEPT
                                    !.meta = [server.meta EXCEPT !.failing = FALSE]],
                                Path(server)),
                           1).s
    /\ caller' = [IdleCaller EXCEPT !.op = "Open", !.pc = "returned"]
    /\ UNCHANGED <<peer, queue, brokerIndex>>

NextRestart ==
    \/ AssignGroup
    \/ Restart

SpecRestart == InitAssign /\ [][NextRestart]_vars

----------------------------------------------------------------------------
(* Vocabulary of the properties.                                           *)

\* The groups of every policy of every database of s, with their place.
GroupRefs(s) ==
    UNION { UNION { { [db |-> d, policy |-> p, pos |-> i] :
                        i \in 1..Len(s.databases[d].policies[p].shardGroups) }
                    : p \in DOMAIN s.databases[d].policies }
            : d \in DOMAIN s.databases }

GroupAt(s, r) == s.databases[r.db].policies[r.policy].shardGroups[r.pos]

\* The shards referenced from the shard groups of s.
ReferencedShards(s) ==
    UNION { { GroupAt(s, r).Shards[k] : k \in 1..Len(GroupAt(s, r).Shards) }
            : r \in GroupRefs(s) }

\* The index of the message the processor applies in a step (as a set: it
\* is empty in the steps that apply nothing).
AppliedIndex ==
    { queue[i].index : i \in 1..Len(queue) } \ { queue'[i].index : i \in 1..Len(queue') }

QueuedAt(k) == queue[CHOOSE i \in 1..Len(queue) : queue[i].index = k]

\* The WriteSeries call publishes a point on a shard topic in this step.
PublishesPoint ==
    /\ caller.pc = "publish"
    /\ caller'.pc = "returned"
    /\ caller'.published # <<>>

\* The fields of the measurement the caller writes to, as server s has them.
CallerFields(s) == s.databases[caller.arg.database].measurements[caller.arg.name].Fields

\* The tag set of the series with the id in a measurement.
TagsOf(mm, id) == CHOOSE tg \in DOMAIN mm.series : mm.series[tg] = id

\* The policy that holds the shard with the id.
PolicyOfShard(s, id) ==
    (CHOOSE r \in GroupRefs(s) :
        \E k \in 1..Len(GroupAt(s, r).Shards) : GroupAt(s, r).Shards[k].ID = id).policy

\* The processor applies non-raw point message m of a shard whose store is
\* open here, and the handler returns nil.
AppliesPoint(m) ==
    /\ m.type = "writeSeries"
    /\ Has(server.shards, m.topic)
    /\ server.shards[m.topic].open
    /\ ~server'.panicked
    /\ ~Has(server'.errors, m.index)

\* The names of point message m that have no field on server s.
UnknownNames(s, m) ==
    { n \in DOMAIN m.data.values :
        FieldByName(s.databases[m.data.database].measurements[m.data.measurement].Fields,
                    n) = 0 }

\* What ReadSeries returns on server s for the point of message m.
ReadBack(s, m) ==
    ReadSeries(s, m.data.database, PolicyOfShard(s, m.topic), m.data.measurement,
               TagsOf(s.databases[m.data.database].measurements[m.data.measurement],
                      m.data.seriesID),
               m.data.timestamp)

\* What DataNodes(), Databases(), ShardGroups(db) and the dataNodeIDs of the
\* shards show of a server.
Topology(s) ==
    [ dataNodes |-> s.dataNodes,
      databases |-> DOMAIN s.databases,
      groups    |-> { [ db |-> r.db, policy |-> r.policy, pos |-> r.pos,
                        ID |-> GroupAt(s, r).ID,
                        StartTime |-> GroupAt(s, r).StartTime,
                        EndTime |-> GroupAt(s, r).EndTime,
                        Shards |-> [k \in 1..Len(GroupAt(s, r).Shards) |->
                            [ ID |-> GroupAt(s, r).Shards[k].ID,
                              DataNodeIDs |-> GroupAt(s, r).Shards[k].DataNodeIDs ]] ]
                      : r \in GroupRefs(s) },
      shards    |-> { [ ID |-> id, DataNodeIDs |-> s.shards[id].DataNodeIDs ]
                      : id \in DOMAIN s.shards } ]

----------------------------------------------------------------------------
(* Properties.                                                             *)

\* C1: the value Sync(i) returned to the caller of a broadcast command is the
\* error the apply handler returned for the message with index i (nil when
\* the handler succeeded).  Stated for the returns whose handler has run.
C1_SyncReturnsHandlerError ==
    (caller.pc = "returned" /\ caller.handled # "pending")
        => caller.err = caller.handled

\* C2: the applied index s.index never decreases.
C2_IndexMonotonic == [][server'.index >= server.index]_vars

\* C3: when Sync(i) has returned, no broadcast message with an index less
\* than or equal to i is still to be applied.
C3_SyncAfterApply ==
    caller.pc = "returned" =>
        \A k \in 1..Len(queue) :
            queue[k].topic = BroadcastTopicID => queue[k].index > caller.index

\* C4: two servers that apply the same broadcast messages have the same data
\* nodes, database names, shard groups, shard ids and dataNodeIDs, whatever
\* their local ids.
C4_SameTopology == Topology(server) = Topology(peer)

C4_Witness ==
    /\ server.id # peer.id
    /\ \E id \in DOMAIN server.shards : server.shards[id].open # peer.shards[id].open

\* C5: the default retention policy name of every database is empty or the
\* key of one of its policies.
C5_DefaultPolicyExists ==
    \A d \in DOMAIN server.databases :
        \/ server.databases[d].defaultRetentionPolicy = ""
        \/ Has(server.databases[d].policies, server.databases[d].defaultRetentionPolicy)

\* C6 as claimed: a shard referenced from a shard group is a key of the shard
\* map if and only if the local server id is among its dataNodeIDs.
C6_ShardMapIffReplica ==
    \A sh \in ReferencedShards(server) :
        Has(server.shards, sh.ID) <=> HasDataNodeID(sh, server.id)

\* C6 as amended: every shard referenced from a shard group is a key of the
\* shard map, replica or not; its local store is open only when the local
\* server id is among its dataNodeIDs.
C6_ReferencedShardsInMap ==
    \A sh \in ReferencedShards(server) :
        /\ Has(server.shards, sh.ID)
        /\ server.shards[sh.ID].open => HasDataNodeID(sh, server.id)

C6_Witness ==
    /\ \E sh \in ReferencedShards(server) :
        Has(server.shards, sh.ID) /\ ~HasDataNodeID(sh, server.id)
    /\ \E sh \in ReferencedShards(server) :
        Has(server.shards, sh.ID) /\ server.shards[sh.ID].open

\* C7: no two distinct shard groups of one retention policy have overlapping
\* windows [StartTime, EndTime).
C7_NoOverlap ==
    \A r1, r2 \in GroupRefs(server) :
        (r1.db = r2.db /\ r1.policy = r2.policy /\ r1.pos # r2.pos) =>
            LET g1 == GroupAt(server, r1)
                g2 == GroupAt(server, r2)
            IN g1.EndTime <= g2.StartTime \/ g2.EndTime <= g1.StartTime

C7_Witness ==
    \E r \in GroupRefs(server) :
        /\ r.pos = 2
        /\ GroupAt(server, r).StartTime # GroupAt(server, [r EXCEPT !.pos = 1]).StartTime

C9_ShardCount ==
    [][server'.meta.shardGroupID # server.meta.shardGroupID =>
        \A ref \in GroupRefs(server') :
            GroupAt(server', ref).ID = server'.meta.shardGroupID =>
                LET g == GroupAt(server', ref)
                    n == Cardinality(DOMAIN server.dataNodes)
                    p == server.databases[ref.db].policies[ref.policy].ReplicaN
                    r == IF p = 0 THEN 1 ELSE IF p > n THEN n ELSE p
                IN n >= 1 =>
                    /\ Len(g.Shards) = n \div r
                    /\ Len(g.Shards) >= 1
                    /\ \A k \in 1..Len(g.Shards) : Len(g.Shards[k].DataNodeIDs) = r
      ]_vars

\* A policy of replication factor 0 holds a group of two shards with one data
\* node each: the factor was coerced to 1 and two nodes gave two shards.
C9_Witness ==
    \E ref \in GroupRefs(server) :
        /\ server.databases[ref.db].policies[ref.policy].ReplicaN = 0
        /\ Len(GroupAt(server, ref).Shards) = 2
        /\ \A k \in 1..2 : Len(GroupAt(server, ref).Shards[k].DataNodeIDs) = 1

\* C10: an apply of createShardGroupIfNotExists for an existing database and
\* policy, with no group for the timestamp and no data node, returns an error
\* that is recorded: no panic, no group added, s.index advanced.
C10_RejectedWithoutNodes ==
    [][\A k \in AppliedIndex :
        LET m == QueuedAt(k) IN
        ( /\ m.type = "createShardGroupIfNotExists"
          /\ Has(server.databases, m.data.database)
          /\ Has(server.databases[m.data.database].policies, m.data.policy)
          /\ ~groupExists(server.databases[m.data.database].policies[m.data.policy],
                          m.data.timestamp)
          /\ DOMAIN server.dataNodes = {} ) =>
            /\ ~server'.panicked
            /\ server'.index = k
            /\ Has(server'.errors, k)
            /\ server'.databases = server.databases
      ]_vars

\* C11 as claimed: with the data nodes 1 and 2 and a policy of replication
\* factor 2, a new group has one shard whose dataNodeIDs are <<1, 2>>,
\* whatever the index of the creating message.
C11_AlwaysAscending ==
    [][\A k \in AppliedIndex :
        ( /\ server'.meta.shardGroupID # server.meta.shardGroupID
          /\ DOMAIN server.dataNodes = {1, 2} ) =>
            \A ref \in GroupRefs(server') :
                ( /\ GroupAt(server', ref).ID = server'.meta.shardGroupID
                  /\ server.databases[ref.db].policies[ref.policy].ReplicaN = 2 ) =>
                    /\ Len(GroupAt(server', ref).Shards) = 1
                    /\ GroupAt(server', ref).Shards[1].DataNodeIDs = <<1, 2>>
      ]_vars

\* C11 as amended: the one shard of the new group lists both nodes, from
\* node 1 when the index of the creating message is even and from node 2
\* when it is odd.
C11_OrderFollowsIndex ==
    [][\A k \in AppliedIndex :
        ( /\ server'.meta.shardGroupID # server.meta.shardGroupID
          /\ DOMAIN server.dataNodes = {1, 2} ) =>
            \A ref \in GroupRefs(server') :
                ( /\ GroupAt(server', ref).ID = server'.meta.shardGroupID
                  /\ server.databases[ref.db].policies[ref.policy].ReplicaN = 2 ) =>
                    /\ Len(GroupAt(server', ref).Shards) = 1
                    /\ GroupAt(server', ref).Shards[1].DataNodeIDs =
                            IF k % 2 = 0 THEN <<1, 2>> ELSE <<2, 1>>
      ]_vars

\* A policy of replication factor 2 holds a group whose one shard lists the
\* nodes as <<2, 1>>: the creating message had an odd index.
C11_Witness ==
    /\ DOMAIN server.dataNodes = {1, 2}
    /\ \E ref \in GroupRefs(server) :
        /\ server.databases[ref.db].policies[ref.policy].ReplicaN = 2
        /\ Len(GroupAt(server, ref).Shards) = 1
        /\ GroupAt(server, ref).Shards[1].DataNodeIDs = <<2, 1>>

\* C12: a WriteSeries call for a point without values publishes nothing on
\* a shard topic, and when it returns a nil error it returns index 0.
C12_EmptyValuesNoPublish ==
    [][( /\ caller'.op = "WriteSeries"
         /\ DOMAIN caller'.arg.values = {} ) =>
            /\ \A i \in 1..Len(queue') :
                    queue'[i].index > brokerIndex => queue'[i].topic = BroadcastTopicID
            /\ (caller'.pc = "returned" /\ caller'.err = Nil) =>
                    /\ caller'.ret = 0
                    /\ caller'.published = <<>>
      ]_vars

\* The first call on a new cluster, for a point without values, has returned
\* (0, nil) after it had the series and the shard group created.
C12_Witness ==
    /\ caller.pc = "returned"
    /\ caller.op = "WriteSeries"
    /\ DOMAIN caller.arg.values = {}
    /\ caller.err = Nil
    /\ caller.ret = 0
    /\ caller.writes = 1
    /\ caller.group # <<>>
    /\ server.meta.shardGroupID = 1
    /\ server.meta.seriesID = 1

\* C13 as claimed: a write to a measurement that has no fields is published
\* as a writeRawSeries message.
C13_FirstWriteRaw ==
    [][(PublishesPoint /\ CallerFields(server) = <<>>) =>
            caller'.published[1].type = "writeRawSeries"
      ]_vars

\* C13 as amended: a write is published as writeRawSeries when every key of
\* the point has a field and as writeSeries otherwise, so the first write to
\* a measurement without fields is a writeSeries; the apply of a writeSeries
\* gives each new key a field while the measurement has room.
C13_EncodingFollowsFields ==
    [][/\ PublishesPoint =>
            caller'.published[1].type =
                IF \A n \in DOMAIN caller.arg.values :
                        FieldByName(CallerFields(server), n) # 0
                THEN "writeRawSeries"
                ELSE "writeSeries"
       /\ \A k \in AppliedIndex :
            (AppliesPoint(QueuedAt(k)) /\ UnknownNames(server', QueuedAt(k)) # {}) =>
                Len(server'.databases[QueuedAt(k).data.database]
                        .measurements[QueuedAt(k).data.measurement].Fields)
                    = MaxFieldID
      ]_vars

\* On a cluster whose measurement began without fields, a call has published
\* a writeRawSeries message: the fields it names were promoted by an earlier
\* writeSeries.
C13_Witness ==
    /\ caller.pc = "returned"
    /\ caller.published # <<>>
    /\ caller.published[1].type = "writeRawSeries"
    /\ Len(CallerFields(server)) \in 1..2
    /\ caller.writes = 2

\* C14 as claimed: after the apply of a writeSeries message on a replica of
\* its shard, every name of the point that had no field has one, and
\* ReadSeries returns the written value under it.
C14_FieldsAndRead ==
    [][\A k \in AppliedIndex :
        LET m == QueuedAt(k) IN
        AppliesPoint(m) =>
            \A n \in UnknownNames(server, m) :
                /\ n \notin UnknownNames(server', m)
                /\ ReadBack(server', m).found
                /\ Has(ReadBack(server', m).values, n)
                /\ ReadBack(server', m).values[n] = m.data.values[n]
      ]_vars

\* C14 as amended: every such name has a field when the measurement has
\* room for all the new names (at most MaxFieldID fields), and ReadSeries
\* returns the written value under every name of the point that has a field.
C14_FieldsWithRoom ==
    [][\A k \in AppliedIndex :
        LET m == QueuedAt(k) IN
        AppliesPoint(m) =>
            LET before == server.databases[m.data.database]
                                .measurements[m.data.measurement].Fields
                after  == server'.databases[m.data.database]
                                .measurements[m.data.measurement].Fields
            IN /\ Len(after) <= MaxFieldID
               /\ Len(before) + Cardinality(UnknownNames(server, m)) <= MaxFieldID
                    => UnknownNames(server', m) = {}
               /\ \A n \in DOMAIN m.data.values :
                    FieldByName(after, n) # 0 =>
                        /\ ReadBack(server', m).found
                        /\ Has(ReadBack(server', m).values, n)
                        /\ ReadBack(server', m).values[n] = m.data.values[n]
      ]_vars

\* The measurement is full; of the names 1 and 2 of a point one got the last
\* field and is read back, the other got none.
C14_Witness ==
    /\ Has(server.databases, "db")
    /\ Has(server.databases["db"].measurements, "cpu")
    /\ LET mm == server.databases["db"].measurements["cpu"] IN
        /\ Len(mm.Fields) = MaxFieldID
        /\ \E n \in {1, 2} :
            /\ FieldByName(mm.Fields, n) # 0
            /\ FieldByName(mm.Fields, 3 - n) = 0
            /\ \E tg \in DOMAIN mm.series :
                LET r == ReadSeries(server, "db", "a", "cpu", tg, 0)
                IN r.found /\ Has(r.values, n) /\ ~Has(r.values, 3 - n)

\* C18: the shard a write is published to is the shard the read path picks
\* for the series in the group of the timestamp, the one at position
\* seriesID mod the number of shards; the shard list of a group is the same
\* after every step.
C18_SameShard ==
    [][/\ PublishesPoint =>
            LET a  == caller.arg
                rp == server.databases[a.database].policies[caller.policy]
                g  == rp.shardGroups[shardGroupByTimestamp(rp, a.timestamp)]
            IN /\ groupExists(rp, a.timestamp)
               /\ caller'.published[1].topic = readShard(g, caller.seriesID).ID
               /\ caller'.published[1].topic =
                    g.Shards[(caller.seriesID % Len(g.Shards)) + 1].ID
       /\ \A r1 \in GroupRefs(server), r2 \in GroupRefs(server') :
            GroupAt(server, r1).ID = GroupAt(server', r2).ID =>
                GroupAt(server, r1).Shards = GroupAt(server', r2).Shards
      ]_vars

\* The point of series 2 was published to the first of the two shards of its
\* group, and series 1 maps to the second.
C18_Witness ==
    /\ caller.pc = "returned"
    /\ caller.published # <<>>
    /\ caller.seriesID = 2
    /\ Len(caller.group[1].Shards) = 2
    /\ caller.published[1].topic = caller.group[1].Shards[1].ID
    /\ ShardBySeriesID(caller.group[1], 1) = caller.group[1].Shards[2]

\* C15: after updateRetentionPolicy(db, A, newName = B) and then
\* updateRetentionPolicy(db, B, newName = A), both returning nil, the policies
\* and the default policy name of the database are what they were.
C15_RenameRoundTrip ==
    (caller.pc = "back" /\ caller.err1 = Nil /\ caller.err2 = Nil) =>
        /\ server.databases[caller.database].policies = caller.before.policies
        /\ server.databases[caller.database].defaultRetentionPolicy
                = caller.before.defaultRetentionPolicy

\* C16: no two data nodes of the server have the same URL; the apply of a
\* createDataNode with the empty URL records ErrDataNodeURLRequired, with the
\* URL of a node of the server ErrDataNodeExists, and both leave the data
\* nodes and the id allocator as they were.
C16_UniqueURLs ==
    [][/\ \A i, j \in DOMAIN server'.dataNodes :
            server'.dataNodes[i].URL = server'.dataNodes[j].URL => i = j
       /\ \A k \in AppliedIndex :
            LET m == QueuedAt(k)
                rejected(e) == /\ Has(server'.errors, k)
                               /\ server'.errors[k] = e
                               /\ server'.dataNodes = server.dataNodes
                               /\ server'.meta.dataNodeID = server.meta.dataNodeID
                               /\ server'.meta.dataNodes = server.meta.dataNodes
            IN m.type = "createDataNode" =>
                /\ m.data.url = 0 => rejected("ErrDataNodeURLRequired")
                /\ ( /\ m.data.url # 0
                     /\ \E id \in DOMAIN server.dataNodes :
                            server.dataNodes[id].URL = urlParse(m.data.url) )
                    => rejected("ErrDataNodeExists")
      ]_vars

\* CreateDataNode with the second spelling of URL 1 has returned
\* ErrDataNodeExists on a server with two data nodes, one created after a
\* data node was deleted.
C16_Witness ==
    /\ caller.pc = "returned"
    /\ caller.op = "CreateDataNode"
    /\ caller.arg = 11
    /\ caller.err = "ErrDataNodeExists"
    /\ Cardinality(DOMAIN server.dataNodes) = 2
    /\ server.meta.dataNodeID = 3

\* C17: in the list ExecuteQuery returns every result is non-nil, and after
\* a result that carries an error no later statement was executed and every
\* later result is the NotExecuted sentinel.
C17_HaltsAtFirstError ==
    (caller.pc = "returned" /\ caller.op = "ExecuteQuery") =>
        /\ \A j \in 1..Len(caller.results) : caller.results[j].set
        /\ \A i, j \in 1..Len(caller.results) :
            (i < j /\ caller.results[i].Err # Nil) =>
                /\ j \notin caller.executed
                /\ caller.results[j].Err = "ErrNotExecuted"

\* C19: once Close has returned nil the client of the server is cleared,
\* its done channel is closed, and no processor goroutine is left that has
\* not been told to return.
C19_CloseStopsProcessor ==
    ~opened(server) =>
        /\ server.client = 0
        /\ server.done = 0
        /\ \A p \in server.procs : p.done \in server.closedDone

\* C20: a caller waiting in Sync returns, unless the process has panicked.
C20_SyncReturns ==
    (caller.pc = "waiting" /\ ~server.panicked)
        ~> (caller.pc = "returned" \/ server.panicked)


\* The processors that apply the message they hold in this step.
Appliers == DOMAIN server.held \ DOMAIN server'.held

\* C21: on a closed server ID() returns 0 and Path() returns the empty
\* string, also when the server had been given an id by Initialize or Join.
C21_ClosedIDZero ==
    ~opened(server) => (ID(server) = 0 /\ Path(server) = "")

\* C25: once Close has returned, no message a processor handles changes the
\* topology, the metastore, the index or the errors map.
C25_ClosedIsFrozen ==
    [][(~opened(server) /\ Appliers # {}) =>
        /\ Topology(server') = Topology(server)
        /\ server'.databases = server.databases
        /\ server'.meta = server.meta
        /\ server'.index = server.index
        /\ server'.errors = server.errors
      ]_vars

\* C24: after SetClient has closed the done channel of a processor, that
\* processor applies no further message: a message is applied only by the
\* processor of the current done channel.
C24_OnlyCurrentProcessor ==
    [][\A d \in Appliers : d = server.done]_vars

\* The handler of m persists to the metastore: with a store that accepts
\* updates it changes the metastore of s.
Persists(s, m) ==
    LET h == [s EXCEPT !.meta.failing = FALSE]
    IN \E ord \in rangeOrders(m) : apply(h, m, ord).s.meta # h.meta

\* C22: when the metastore update of an apply handler fails, the topology in
\* memory after the apply is the one before it and the failure is recorded
\* in errors under the index of the message.
C22_FailedUpdateKeepsTopology ==
    [][\A k \in AppliedIndex :
        (metaFails(server) /\ Persists(server, QueuedAt(k))) =>
            /\ Topology(server') = Topology(server)
            /\ server'.databases = server.databases
            /\ Has(server'.errors, k)
      ]_vars

\* C23: right after an apply of createShardGroupIfNotExists that creates a
\* group and returns nil, the shard groups of the policy in the database the
\* metastore holds are the shard groups of the policy in memory.
C23_PersistedGroups ==
    [][\A k \in AppliedIndex :
        LET m == QueuedAt(k) IN
        ( /\ m.type = "createShardGroupIfNotExists"
          /\ server'.meta.shardGroupID # server.meta.shardGroupID
          /\ ~server'.panicked
          /\ ~Has(server'.errors, k) ) =>
            server'.meta.databases[m.data.database].policies[m.data.policy].shardGroups
                = server'.databases[m.data.database].policies[m.data.policy].shardGroups
      ]_vars

\* C26: every change of the errors map and of s.index is made by a
\* goroutine that holds the lock exclusively.
C26_ExclusiveWrites ==
    [][(server'.errors # server.errors \/ server'.index # server.index) =>
        server.mu.w # 0]_vars

\* C27: a goroutine that reads the topology in a public operation (the two
\* lookups of createSeriesIfNotExists) holds the lock while it reads.
C27_ReadsUnderLock ==
    [][\A t \in Threads :
        (caller[t].pc \in {"series", "seriesLookup"} /\ caller'[t].pc # caller[t].pc)
            => Holds(server, t)]_vars

\* C28: a goroutine inside broadcast, publishing or waiting in Sync, holds
\* the lock neither shared nor exclusive (but for the RLock Sync itself
\* takes around its check).
C28_NoLockInBroadcast ==
    \A t \in Threads :
        /\ caller[t].pc \in {"sync", "seriesBroadcast"} => ~Holds(server, t)
        /\ caller[t].pc = "syncLocked" => (server.mu.w # t /\ server.mu.r[t] = 1)

\* C29: a WriteSeries call for a point with values that returns a nil error
\* has published exactly one message on a shard topic, in its last step: on
\* the topic of the shard of the series, a writeRawSeries if every key of the
\* point has a field and a writeSeries otherwise, and it returns the index of
\* that message.  What it publishes before goes to the broadcast topic, and
\* no step of the call changes the databases or their fields.
C29_OnePointMessage ==
    [][/\ PublishesPoint =>
            LET msg == caller'.published[1] IN
            /\ queue' = Append(queue, msg)
            /\ msg.topic = caller.group[1].Shards[
                                (caller.seriesID % Len(caller.group[1].Shards)) + 1].ID
            /\ msg.topic # BroadcastTopicID
            /\ msg.type = IF \A n \in DOMAIN caller.arg.values :
                                FieldByName(CallerFields(server), n) # 0
                          THEN "writeRawSeries"
                          ELSE "writeSeries"
            /\ caller'.ret = msg.index
       /\ ( /\ caller'.pc = "returned"
            /\ caller.pc # "returned"
            /\ caller'.err = Nil
            /\ DOMAIN caller'.arg.values # {} ) => PublishesPoint
       /\ (AppliedIndex = {} /\ ~PublishesPoint) =>
            \A i \in 1..Len(queue') :
                queue'[i].index > brokerIndex => queue'[i].topic = BroadcastTopicID
       /\ AppliedIndex = {} => server'.databases = server.databases
      ]_vars

\* A call for a point with the names 1 and 2 has published a writeSeries
\* message while the measurement had a field for one of the two names only.
C29_Witness ==
    /\ caller.pc = "returned"
    /\ caller.err = Nil
    /\ caller.published # <<>>
    /\ caller.published[1].type = "writeSeries"
    /\ caller.published[1].topic # BroadcastTopicID
    /\ DOMAIN caller.arg.values = {1, 2}
    /\ Len(CallerFields(server)) = 1

\* The series id of the point the caller publishes is in the series index
\* of the server, and the shard it is published to is a shard of a group of
\* the server.
PointKnownHere ==
    LET a == caller.arg IN
    /\ Has(server.databases, a.database)
    /\ seriesIDOf(server.databases[a.database], a.name, a.tags) = caller.seriesID
    /\ caller.seriesID # 0
    /\ \E r \in GroupRefs(server) :
        \E k \in 1..Len(GroupAt(server, r).Shards) :
            GroupAt(server, r).Shards[k].ID = caller'.published[1].topic

\* C30: when WriteSeries publishes on a shard topic, the series id of the
\* message is in the local series index, its shard belongs to a local shard
\* group, and the createSeriesIfNotExists and createShardGroupIfNotExists
\* messages the call has broadcast have been applied here.
C30_PublishAfterApply ==
    [][PublishesPoint =>
        /\ PointKnownHere
        /\ \A i \in 1..Len(queue) : queue[i].index \notin caller.issued
      ]_vars

\* C31: a public operation that has returned leaves the lock free: the
\* goroutine that called it holds the lock neither shared nor exclusive,
\* whatever the return path, so that the handlers can still take it.
C31_ReturnsUnlocked ==
    \A t \in Threads : caller[t].pc = "returned" => ~Holds(server, t)

\* C32: with the server open and every broadcast message delivered, a call
\* of the broadcast command CreateDatabase that waits in Sync returns, for
\* every goroutine and whatever the other goroutine calls.
C32_BroadcastReturns ==
    \A t \in Threads :
        (caller[t].op = "CreateDatabase" /\ caller[t].pc = "sync")
            ~> (caller[t].pc = "returned")

\* C33: in the list ExecuteQuery returns, a result is the NotExecuted
\* sentinel only if an earlier statement of the query was executed and
\* returned an error; a query none of whose statements fails has no
\* NotExecuted result.
C33_NotExecutedAfterError ==
    (caller.pc = "returned" /\ caller.op = "ExecuteQuery") =>
        \A j \in 1..Len(caller.results) :
            caller.results[j].Err = "ErrNotExecuted" =>
                \E i \in 1..(j - 1) :
                    /\ i \in caller.executed
                    /\ caller.results[i].Err \notin {Nil, "ErrNotExecuted"}

\* C34: the apply of an updateRetentionPolicy leaves a database with no
\* fewer retention policies than it had: a policy that is not the one being
\* renamed is still there after the apply, with its shard groups.
C34_RenameKeepsPolicies ==
    [][\A db \in DOMAIN server.databases :
        /\ Has(server'.databases, db)
        /\ Cardinality(DOMAIN server'.databases[db].policies)
                >= Cardinality(DOMAIN server.databases[db].policies)
        /\ \A n \in DOMAIN server.databases[db].policies :
                n # (IF caller.pc = "idle" THEN caller'.A ELSE caller.B) =>
                    /\ Has(server'.databases[db].policies, n)
                    /\ server'.databases[db].policies[n]
                            = server.databases[db].policies[n]
      ]_vars

\* C35: every id in the DataNodeIDs of a shard of a shard group of the
\* server is the id of a data node of the server, also after a
\* deleteDataNode for a node that has shards.
C35_ShardNodesExist ==
    \A r \in GroupRefs(server) :
        \A k \in 1..Len(GroupAt(server, r).Shards) :
            \A i \in 1..Len(GroupAt(server, r).Shards[k].DataNodeIDs) :
                Has(server.dataNodes, GroupAt(server, r).Shards[k].DataNodeIDs[i])

\* C36: in every shard group no data node id is listed twice in the
\* DataNodeIDs of a shard, and no data node id is listed by two shards of
\* the group.
C36_NodesAssignedOnce ==
    \A r \in GroupRefs(server) :
        LET sh == GroupAt(server, r).Shards IN
        /\ \A k \in 1..Len(sh) :
            \A i, j \in 1..Len(sh[k].DataNodeIDs) :
                i # j => sh[k].DataNodeIDs[i] # sh[k].DataNodeIDs[j]
        /\ \A k1, k2 \in 1..Len(sh) :
            k1 # k2 =>
                \A i \in 1..Len(sh[k1].DataNodeIDs), j \in 1..Len(sh[k2].DataNodeIDs) :
                    sh[k1].DataNodeIDs[i] # sh[k2].DataNodeIDs[j]

\* Four data nodes and replication factor 2 gave a group of two shards, the
\* round robin starting at the last node and wrapping to the first.
C36_Witness ==
    \E r \in GroupRefs(server) :
        /\ Len(GroupAt(server, r).Shards) = 2
        /\ GroupAt(server, r).Shards[1].DataNodeIDs = <<4, 1>>
        /\ GroupAt(server, r).Shards[2].DataNodeIDs = <<2, 3>>

\* C37: the errors map holds entries only under the index of the command
\* the local caller has broadcast and still waits for in Sync; an error
\* recorded for a message nobody syncs on here does not stay in the map.
C37_ErrorsOfWaitingCallers ==
    \A k \in DOMAIN server.errors : caller.pc = "waiting" /\ caller.index = k

\* The shards of the groups of the databases the metastore of s holds.
PersistedShards(s) ==
    UNION { UNION { UNION { { g.Shards[k] : k \in 1..Len(g.Shards) } :
                g \in { s.meta.databases[d].policies[p].shardGroups[i] :
                        i \in 1..Len(s.meta.databases[d].policies[p].shardGroups) } } :
            p \in DOMAIN s.meta.databases[d].policies } :
        d \in DOMAIN s.meta.databases }

\* C38: when a fresh server has opened a path, the topology in memory holds
\* what the metastore holds: the server id, the databases, the data nodes,
\* and in the shard map the persisted shards the local node replicates.
C38_OpenLoadsTopology ==
    [][(caller'.op = "Open" /\ caller.op # "Open") =>
        /\ server'.id = server'.meta.id
        /\ DOMAIN server'.databases = DOMAIN server'.meta.databases
        /\ server'.dataNodes = server'.meta.dataNodes
        /\ \A sh \in PersistedShards(server') :
            HasDataNodeID(sh, server'.id) => Has(server'.shards, sh.ID)
      ]_vars

\* C39: of the WriteSeries calls of the goroutines for one database,
\* measurement and tag set, however they interleave, one series comes: one
\* series id is allocated, every call that returns nil has resolved that
\* id, and the apply of a createSeriesIfNotExists for a series that exists
\* returns nil and changes neither the databases nor the metastore.
C39_OneSeries ==
    [][/\ server'.meta.seriesID <= 1
       /\ \A t \in Threads :
            ( /\ caller'[t].op = "WriteSeries"
              /\ caller'[t].pc = "returned"
              /\ caller'[t].err = Nil ) =>
                /\ caller'[t].seriesID = 1
                /\ lookupSeries(server', caller'[t].arg.database,
                                caller'[t].arg.name, caller'[t].arg.tags) = 1
                /\ server'.meta.seriesID = 1
       /\ \A d \in DOMAIN server.held :
            LET m == server.held[d] IN
            ( /\ server.procAt = "handler"
              /\ server'.procAt = "applied"
              /\ m.type = "createSeriesIfNotExists"
              /\ lookupSeries(server, m.data.database, m.data.name, m.data.tags) # 0 ) =>
                /\ server'.databases = server.databases
                /\ server'.meta = server.meta
                /\ server'.procErr = Nil
      ]_vars

\* Both goroutines found no series, both broadcast createSeriesIfNotExists,
\* both messages were applied and both calls returned the id 1.
C39_Witness ==
    /\ \A t \in Threads :
        /\ caller[t].op = "WriteSeries"
        /\ caller[t].pc = "returned"
        /\ caller[t].err = Nil
        /\ caller[t].index # 0
        /\ caller[t].seriesID = 1
    /\ \A t1, t2 \in Threads : t1 # t2 => caller[t1].index # caller[t2].index
    /\ server.index >= 3
    /\ server.meta.seriesID = 1

====
